---- MODULE Spec2Model ----
(***************************************************************************)
(* A model of the SHX glyph interpreter, its shape cache and the font      *)
(* facade (ShxShapeParser / ShxFont of mlightcad/shx-parser).              *)
(*                                                                         *)
(* Numbers.  The program computes with IEEE-754 doubles.  The model uses   *)
(* exact rationals extended with the three non-finite doubles:             *)
(*     <<n, d>>, d > 0, gcd(n, d) = 1   the rational n/d                   *)
(*     <<1, 0>>, <<-1, 0>>              +Infinity, -Infinity               *)
(*     <<0, 0>>                         NaN                                *)
(* Rounding, overflow to Infinity and the sign of zero are not modelled.   *)
(* The program never divides by a value that can be -0 (divisors are       *)
(* bytes, the font height and positive bounding box extents).              *)
(*                                                                         *)
(* Reading a Uint8Array past its end gives the JavaScript value undefined, *)
(* modelled by Undef: it becomes NaN in arithmetic, 0 in bitwise           *)
(* operations and is not === 0.                                            *)
(***************************************************************************)
EXTENDS Integers, Sequences, FiniteSets, TLC

\* -------------------------------------------------------------------------
\* Numbers
\* -------------------------------------------------------------------------

Abs(n) == IF n < 0 THEN 0 - n ELSE n

Sgn(n) == IF n < 0 THEN 0 - 1 ELSE IF n > 0 THEN 1 ELSE 0

RECURSIVE GCD(_, _)
GCD(a, b) == IF b = 0 THEN a ELSE GCD(b, a % b)

\* n/d, d > 0, divided through by g.
Reduced(n, d, g) == <<n \div g, d \div g>>

\* The number n/d in normal form (d = 0 gives an infinity or NaN).
Norm(n, d) ==
  IF d = 0 THEN <<Sgn(n), 0>>
  ELSE Reduced(Sgn(d) * n, Abs(d), GCD(Abs(n), Abs(d)))

NaN == <<0, 0>>
PInf == <<1, 0>>
NInf == <<0 - 1, 0>>
Zero == <<0, 1>>
One == <<1, 1>>
Half == <<1, 2>>
MinusOne == <<0 - 1, 1>>
MinusHalf == <<0 - 1, 2>>

Int2Num(n) == <<n, 1>>

IsNaN(a) == a = NaN
IsFinite(a) == a[2] # 0

\* a + b for finite a and b, g being the gcd of their denominators.
AddOver(a, b, g) ==
  Norm(a[1] * (b[2] \div g) + b[1] * (a[2] \div g), (a[2] \div g) * b[2])

NumAdd(a, b) ==
  IF a[2] = 0 /\ b[2] = 0
  THEN (IF a = b THEN a ELSE NaN)
  ELSE IF a[2] = 0 THEN a
  ELSE IF b[2] = 0 THEN b
  ELSE AddOver(a, b, GCD(a[2], b[2]))

NumNeg(a) == <<0 - a[1], a[2]>>

NumSub(a, b) == NumAdd(a, NumNeg(b))

\* a * b for finite a and b, g1 and g2 being the gcds across the fractions.
MulOver(a, b, g1, g2) ==
  Norm((a[1] \div g1) * (b[1] \div g2), (a[2] \div g2) * (b[2] \div g1))

NumMul(a, b) ==
  IF a[2] = 0 \/ b[2] = 0 THEN <<Sgn(a[1]) * Sgn(b[1]), 0>>
  ELSE MulOver(a, b, GCD(Abs(a[1]), b[2]), GCD(Abs(b[1]), a[2]))

\* a / b as JavaScript computes it: x/0 is an infinity, 0/0 is NaN.
NumDiv(a, b) == NumMul(a, Norm(b[2], b[1]))

\* a < b; false whenever an operand is NaN.
NumLt(a, b) ==
  IF IsNaN(a) \/ IsNaN(b) THEN FALSE
  ELSE IF a[2] = 0 /\ b[2] = 0 THEN a[1] < b[1]
  ELSE a[1] * b[2] < b[1] * a[2]

\* Math.min / Math.max: NaN if an argument is NaN.
NumMin(a, b) == IF IsNaN(a) \/ IsNaN(b) THEN NaN ELSE IF NumLt(b, a) THEN b ELSE a
NumMax(a, b) == IF IsNaN(a) \/ IsNaN(b) THEN NaN ELSE IF NumLt(a, b) THEN b ELSE a

\* The value read at an index at or past the end of a Uint8Array.
Undef == 1000

\* data[i] of a Uint8Array held as a sequence (i counts from 0, as in the code).
DataAt(data, i) == IF i >= 0 /\ i < Len(data) THEN data[i + 1] ELSE Undef

\* ToNumber of a value read from the array.
ByteNum(v) == IF v = Undef THEN NaN ELSE Int2Num(v)

\* ToInt32 of a value read from the array, as the bitwise operators apply it.
ByteBits(v) == IF v = Undef THEN 0 ELSE v

\* A variant that reads the byte as unsigned.
byteAsUnsigned(value) == value

byteToSByte(value) ==
  IF value = Undef THEN Undef
  ELSE IF value > 127 THEN value - 256 ELSE value

\* ToNumber of a signed byte (or of undefined).
SByteNum(v) == IF v = Undef THEN NaN ELSE Int2Num(v)

\* -------------------------------------------------------------------------
\* Point
\* -------------------------------------------------------------------------

Point(x, y) == [x |-> x, y |-> y]

Origin == Point(Zero, Zero)

PointAdd(p, q) == Point(NumAdd(p.x, q.x), NumAdd(p.y, q.y))

PointSubtract(p, q) == Point(NumSub(p.x, q.x), NumSub(p.y, q.y))

PointMultiply(p, scalar) == Point(NumMul(p.x, scalar), NumMul(p.y, scalar))

\* -------------------------------------------------------------------------
\* ShxShape
\* -------------------------------------------------------------------------

ShxShape(lastPoint, polylines) == [lastPoint |-> lastPoint, polylines |-> polylines]

\* All points of all polylines, in order.
RECURSIVE Flatten(_)
Flatten(polylines) ==
  IF polylines = <<>> THEN <<>> ELSE Head(polylines) \o Flatten(Tail(polylines))

RECURSIVE FoldMin(_, _, _)
FoldMin(pts, k, acc) ==
  IF k > Len(pts) THEN acc
  ELSE FoldMin(pts, k + 1,
               [minX |-> NumMin(acc.minX, pts[k].x), maxX |-> NumMax(acc.maxX, pts[k].x),
                minY |-> NumMin(acc.minY, pts[k].y), maxY |-> NumMax(acc.maxY, pts[k].y)])

bbox(shape) ==
  FoldMin(Flatten(shape.polylines), 1,
          [minX |-> PInf, maxX |-> NInf, minY |-> PInf, maxY |-> NInf])

offset(shape, p) ==
  ShxShape(PointAdd(shape.lastPoint, p),
           [j \in 1..Len(shape.polylines) |->
              [k \in 1..Len(shape.polylines[j]) |-> PointAdd(shape.polylines[j][k], p)]])

\* new Point(-bbox.minX, -bbox.minY)
MinusMin(b) == Point(NumNeg(b.minX), NumNeg(b.minY))

normalizeToOrigin(shape) == offset(shape, MinusMin(bbox(shape)))

\* -------------------------------------------------------------------------
\* Arc
\*
\* Angles are held in quarter degrees.  Math.sin and Math.cos are
\* approximated by Bhaskara's formula rounded to thousandths (within 0.002
\* of the true value; exact at multiples of 90 degrees), and the points an
\* arc is tessellated into are rounded to thousandths.
\* -------------------------------------------------------------------------

FullTurn == 1440

\* 1000 sin of x quarter degrees, 0 <= x <= 720, p being x (720 - x).
Bhaskara(p) == (4000 * p + (648000 - p) \div 2) \div (648000 - p)

\* sin of q quarter degrees, in thousandths.
SinMilli(q) ==
  IF q % FullTurn > 720
  THEN 0 - Bhaskara(((q % FullTurn) - 720) * (FullTurn - (q % FullTurn)))
  ELSE Bhaskara((q % FullTurn) * (720 - (q % FullTurn)))

Sin(q) == Norm(SinMilli(q), 1000)
Cos(q) == Norm(SinMilli(q + 360), 1000)

\* A finite number rounded to thousandths.
RoundMilli(a) ==
  IF ~IsFinite(a) THEN a
  ELSE Norm(1000 * (a[1] \div a[2]) + (2000 * (a[1] % a[2]) + a[2]) \div (2 * a[2]), 1000)

RoundPoint(p) == Point(RoundMilli(p.x), RoundMilli(p.y))

\* center + radius * (cos(angle), sin(angle))
OnCircle(center, radius, q) ==
  PointAdd(center, Point(NumMul(radius, Cos(q)), NumMul(radius, Sin(q))))

\* Arc.fromOctant and the octant branch of the constructor: end is not set.
fromOctant(center, radius, startOctant, octantCount, isClockwise) ==
  LET startAngle == startOctant * 180
      span == (IF octantCount = 0 THEN 8 ELSE octantCount) * 180
  IN  [center |-> center, radius |-> radius, isClockwise |-> isClockwise,
       startAngle |-> startAngle,
       endAngle |-> startAngle + (IF isClockwise THEN 0 - span ELSE span),
       start |-> OnCircle(center, radius, startAngle),
       hasEnd |-> FALSE]

\* Math.max(1, Math.floor(includedAngle / circleSpan)), circleSpan being 10
\* degrees.
NumSegments(includedAngle) ==
  IF includedAngle \div 40 < 1 THEN 1 ELSE includedAngle \div 40

\* Arc.tessellate for an arc built by fromOctant.  With radius 0 the code
\* returns [start, end] and end is undefined: this.end!.clone() throws a
\* TypeError.
tessellateOctant(arc) ==
  IF arc.radius = Zero THEN [threw |-> TRUE, points |-> <<>>]
  ELSE LET includedAngle == Abs(arc.endAngle - arc.startAngle)
           numSegments == NumSegments(includedAngle)
           Angle(k) == IF arc.isClockwise
                       THEN arc.startAngle - (k * includedAngle) \div numSegments
                       ELSE arc.startAngle + (k * includedAngle) \div numSegments
       IN  [threw |-> FALSE,
            points |-> [k \in 1..(numSegments + 1) |->
                          IF k = 1 THEN arc.start
                          ELSE RoundPoint(OnCircle(arc.center, arc.radius,
                                                   IF k = numSegments + 1 THEN arc.endAngle
                                                   ELSE Angle(k - 1)))]]

\* Math.floor(includedAngle / circleSpan) of the arc Arc.fromBulge builds
\* from bulge b / 127, 1 <= b <= 127: the included angle is 4 atan(b / 127),
\* which reaches k times 10 degrees at b = 127 tan(2.5 k degrees).
BulgeSegments(b) ==
  Cardinality({t \in {12, 17, 23, 29, 35, 41, 47, 53, 60, 67, 74, 81, 89, 98, 107, 117, 127} :
               b >= t}) + 1

\* 4 atan(b / 127) in quarter degrees, from atan(x) ~ 45 x + 15.6 x (1 - x)
\* degrees.
BulgeAngle(b) == (720 * 127 * b + 250 * b * (127 - b)) \div 16129

\* A variant that takes the bulge as it is given.
BulgeMagnitudeUnclamped(bulge) == Abs(bulge)

\* |bulge / 127| after Arc.fromBulge clamped it to [-1, 1], times 127.
BulgeMagnitude(bulge) == IF Abs(bulge) > 127 THEN 127 ELSE Abs(bulge)

\* The centre of the arc from start over the chord distance: it lies on the
\* chord's perpendicular bisector at (1 - t^2) / (4 t) chord lengths,
\* t = b / 127 (this is |radius cos(theta / 2)| of the constructor), on the
\* side the direction of the arc selects.
BulgeCenter(start, distance, b, isClockwise) ==
  PointAdd(PointAdd(start, PointMultiply(distance, Half)),
           PointMultiply(Point(NumNeg(distance.y), distance.x),
                         Norm((IF isClockwise THEN 0 - 1 ELSE 1) * (127 * 127 - b * b),
                              4 * b * 127)))

\* center + v turned by q quarter degrees
TurnedAbout(center, v, q) ==
  PointAdd(center, Point(NumSub(NumMul(v.x, Cos(q)), NumMul(v.y, Sin(q))),
                         NumAdd(NumMul(v.x, Sin(q)), NumMul(v.y, Cos(q)))))

\* The tessellation of the arc from start to end about center: the points
\* between the two are start turned about the centre.
BulgeArcAbout(start, end, center, b, isClockwise) ==
  [j \in 1..(BulgeSegments(b) + 1) |->
     IF j = 1 THEN start
     ELSE IF j = BulgeSegments(b) + 1 THEN end
     ELSE RoundPoint(TurnedAbout(center, PointSubtract(start, center),
                                 (IF isClockwise THEN 0 - 1 ELSE 1)
                                 * (((j - 1) * BulgeAngle(b)) \div BulgeSegments(b))))]

\* Arc.fromBulge(start, end, bulge / 127).tessellate(); the constructor's
\* startAngle and endAngle are not held.  A chord of length 0 gives radius 0,
\* and a NaN or infinite operand gives a NaN included angle: in both cases
\* the result is [start, end].
BulgeArcPoints(start, end, bulge) ==
  IF \/ bulge = Undef
     \/ bulge = 0
     \/ ~(IsFinite(start.x) /\ IsFinite(start.y) /\ IsFinite(end.x) /\ IsFinite(end.y))
     \/ PointSubtract(end, start) = Origin
  THEN <<start, end>>
  ELSE BulgeArcAbout(start, end,
                     RoundPoint(BulgeCenter(start, PointSubtract(end, start),
                                            BulgeMagnitude(bulge), bulge < 0)),
                     BulgeMagnitude(bulge), bulge < 0)

\* -------------------------------------------------------------------------
\* Font data
\* -------------------------------------------------------------------------

SHAPES == "shapes"
BIGFONT == "bigfont"
UNIFONT == "unifont"

\* codes[code] is truthy: the code has an entry in fontData.content.data.
HasData(font, code) == code \in DOMAIN font.data

\* fontData.content.height, the unit getCharShape divides the size by.  The
\* content decoder that fills this field is not among the sources; the
\* reference unit is taken to be the font's baseUp metric.
ContentHeight(font) == font.baseUp

\* -------------------------------------------------------------------------
\* Scaling
\* -------------------------------------------------------------------------

\* A variant that scales the polylines and leaves the last point as it is.
scaleShapePolylinesByFactor(shape, factor) ==
  ShxShape(shape.lastPoint,
           [j \in 1..Len(shape.polylines) |->
              [k \in 1..Len(shape.polylines[j]) |->
                 PointMultiply(shape.polylines[j][k], factor)]])

scaleShapeByFactor(shape, factor) ==
  ShxShape(PointMultiply(shape.lastPoint, factor),
           [j \in 1..Len(shape.polylines) |->
              [k \in 1..Len(shape.polylines[j]) |->
                 PointMultiply(shape.polylines[j][k], factor)]])

\* shapeHeight > 0 ? height / shapeHeight : 1, and the same for the width.
AxisScale(target, extent) == IF NumLt(Zero, extent) THEN NumDiv(target, extent) ELSE One

\* The shape with x multiplied by widthScale and y by heightScale.
ScaleAxes(shape, widthScale, heightScale) ==
  LET Scale(point) == Point(NumMul(point.x, widthScale), NumMul(point.y, heightScale))
  IN  ShxShape(Scale(shape.lastPoint),
               [j \in 1..Len(shape.polylines) |->
                  [k \in 1..Len(shape.polylines[j]) |-> Scale(shape.polylines[j][k])]])

\* scaleShapeByHeightAndWidth with the bounding box b of the shape at hand.
ScaleToBox(shape, height, width, b) ==
  ScaleAxes(shape, AxisScale(width, NumSub(b.maxX, b.minX)),
            AxisScale(height, NumSub(b.maxY, b.minY)))

\* A variant that multiplies by the width and the height themselves.
scaleShapeByHeightAndWidthTimes(shape, height, width) == ScaleAxes(shape, width, height)

scaleShapeByHeightAndWidth(shape, height, width) ==
  ScaleToBox(shape, height, width, bbox(shape))

\* The part of getScaledSubshapeAtInsertPoint that follows the lookup: the
\* base shape moved to the origin, scaled and moved to the insertion point.
ScaledSubshapeAt(baseShape, width, height, insertPoint) ==
  offset(scaleShapeByHeightAndWidth(offset(baseShape, MinusMin(bbox(baseShape))),
                                    height, width),
         insertPoint)

\* -------------------------------------------------------------------------
\* The interpreter: one command of parseShape's loop
\* -------------------------------------------------------------------------

getVectorForDirection(dir) ==
  CASE dir = 0 -> Point(One, Zero)
    [] dir = 1 -> Point(One, Half)
    [] dir = 2 -> Point(One, One)
    [] dir = 3 -> Point(Half, One)
    [] dir = 4 -> Point(Zero, One)
    [] dir = 5 -> Point(MinusHalf, One)
    [] dir = 6 -> Point(MinusOne, One)
    [] dir = 7 -> Point(MinusOne, Half)
    [] dir = 8 -> Point(MinusOne, Zero)
    [] dir = 9 -> Point(MinusOne, MinusHalf)
    [] dir = 10 -> Point(MinusOne, MinusOne)
    [] dir = 11 -> Point(MinusHalf, MinusOne)
    [] dir = 12 -> Point(Zero, MinusOne)
    [] dir = 13 -> Point(Half, MinusOne)
    [] dir = 14 -> Point(One, MinusOne)
    [] OTHER -> Point(One, MinusHalf)

\* The local state of one parseShape call.
NewState ==
  [currentPoint |-> Origin, polylines |-> <<>>, currentPolyline |-> <<>>,
   sp |-> <<>>, isPenDown |-> FALSE, scale |-> One]

\* What one command handler yields: the index it returns and the state it
\* leaves (kind "ok"); an exception (kind "throw", error names it); a loop
\* that never ends (kind "hang"); or, for opcode 7, the sub-glyph to draw
\* (kind "sub") with the size and origin computed for it.
Ok(i, state) ==
  [kind |-> "ok", i |-> i, state |-> state, error |-> "",
   subCode |-> 0, width |-> Zero, height |-> Zero, origin |-> Origin]

Throw(i, state, error) == [Ok(i, state) EXCEPT !.kind = "throw", !.error = error]

Hang(i, state) == [Ok(i, state) EXCEPT !.kind = "hang"]

\* The pen moves by vec; with the pen down the new position is emitted.
MovePen(state, vec) ==
  LET p == PointAdd(state.currentPoint, vec)
  IN  [state EXCEPT !.currentPoint = p,
                    !.currentPolyline = IF state.isPenDown THEN Append(@, p) ELSE @]

handleVectorCommand(command, state) ==
  LET len == command \div 16
      dir == command % 16
      vec == getVectorForDirection(dir)
  IN  MovePen(state, PointMultiply(vec, NumMul(Int2Num(len), state.scale)))

handleXYDisplacement(data, index, state) ==
  LET vec == Point(SByteNum(byteToSByte(DataAt(data, index + 1))),
                   SByteNum(byteToSByte(DataAt(data, index + 2))))
  IN  Ok(index + 2, MovePen(state, PointMultiply(vec, state.scale)))

\* The while (true) loop of handleMultipleXYDisplacements, i being the index
\* of the last byte read.  Once i is past the end every read is undefined,
\* no pair is (0,0) and the loop cannot end.
RECURSIVE handleMultipleXYDisplacements(_, _, _)
handleMultipleXYDisplacements(data, index, state) ==
  LET x == byteToSByte(DataAt(data, index + 1))
      y == byteToSByte(DataAt(data, index + 2))
      vec == Point(SByteNum(x), SByteNum(y))
  IN  IF x = 0 /\ y = 0 THEN Ok(index + 2, state)
      ELSE IF index + 2 >= Len(data) THEN Hang(index + 2, state)
      ELSE handleMultipleXYDisplacements(data, index + 2,
                                         MovePen(state, PointMultiply(vec, state.scale)))

\* The arc handleOctantArc builds: it starts at the pen position.
OctantArcFrom(currentPoint, radius, flag) ==
  fromOctant(PointSubtract(currentPoint,
                           Point(NumMul(Cos(((flag \div 16) % 8) * 180), radius),
                                 NumMul(Sin(((flag \div 16) % 8) * 180), radius))),
             radius, (flag \div 16) % 8, flag % 8, flag > 127)

\* What handleOctantArc does with the tessellation t: currentPolyline.pop()
\* and the points pushed when the pen is down, the pen moved to the last one.
OctantArcDrawn(index, state, t) ==
  IF t.threw THEN Throw(index + 2, state, "TypeError")
  ELSE Ok(index + 2,
          [state EXCEPT !.currentPolyline =
                          IF state.isPenDown
                          THEN (IF @ = <<>> THEN <<>> ELSE SubSeq(@, 1, Len(@) - 1)) \o t.points
                          ELSE @,
                        !.currentPoint = t.points[Len(t.points)]])

handleOctantArc(data, index, state) ==
  OctantArcDrawn(index, state,
                 tessellateOctant(OctantArcFrom(state.currentPoint,
                                                NumMul(ByteNum(DataAt(data, index + 1)),
                                                       state.scale),
                                                ByteBits(DataAt(data, index + 2)))))

\* The points the while loops of handleFractionalArc add after the start
\* point: from cur, in steps of delta, as long as cur + delta is short of end.
RECURSIVE FractionalSteps(_, _, _, _, _)
FractionalSteps(center, r, cur, delta, endRadian) ==
  IF (delta > 0 /\ cur + delta < endRadian) \/ (delta < 0 /\ cur + delta > endRadian)
  THEN <<RoundPoint(OnCircle(center, r, cur + delta))>>
       \o FractionalSteps(center, r, cur + delta, delta, endRadian)
  ELSE <<>>

\* The points of the fractional arc of radius r about center, between the
\* angles startRadian and endRadian (quarter degrees).  An offset that is
\* undefined makes the angle, and what is computed from it, NaN.
FractionalArcPoints(center, r, startOffset, endOffset, startRadian, endRadian, delta) ==
  <<IF startOffset = Undef THEN Point(NaN, NaN) ELSE OnCircle(center, r, startRadian)>>
  \o (IF startOffset = Undef \/ endOffset = Undef THEN <<>>
      ELSE FractionalSteps(center, r, startRadian, delta, endRadian))
  \o <<IF startOffset = Undef \/ endOffset = Undef THEN Point(NaN, NaN)
       ELSE OnCircle(center, r, endRadian)>>

\* The arc once its radius and angles are known: its centre is such that
\* the arc starts at the pen position.
FractionalArcBetween(currentPoint, r, startOffset, endOffset, startRadian, endRadian, delta) ==
  FractionalArcPoints(IF startOffset = Undef THEN Point(NaN, NaN)
                      ELSE PointSubtract(currentPoint,
                                         Point(NumMul(r, Cos(startRadian)),
                                               NumMul(r, Sin(startRadian)))),
                      r, startOffset, endOffset, startRadian, endRadian, delta)

\* The arc of radius r that the offsets and the flag byte describe.
FractionalArc(currentPoint, r, startOffset, endOffset, flag) ==
  LET n1 == (flag \div 16) % 8
      n2a == IF flag % 8 = 0 THEN 8 ELSE flag % 8
      n2 == IF endOffset # 0 THEN n2a - 1 ELSE n2a
      sign == IF flag > 127 THEN 0 - 1 ELSE 1
  IN  FractionalArcBetween(
        currentPoint, r, startOffset, endOffset,
        180 * n1 + sign * ((180 * ByteBits(startOffset)) \div 256),
        180 * n1 + sign * 180 * n2 + sign * ((180 * ByteBits(endOffset)) \div 256),
        sign * 40)

\* The pen moved along the points, which are pushed when the pen is down.
ArcDrawn(state, points) ==
  [state EXCEPT !.currentPoint = points[Len(points)],
                !.currentPolyline = IF state.isPenDown THEN @ \o points ELSE @]

handleFractionalArc(data, index, state) ==
  Ok(index + 5,
     ArcDrawn(state,
              FractionalArc(state.currentPoint,
                            NumMul(NumAdd(NumMul(ByteNum(DataAt(data, index + 3)), Int2Num(255)),
                                          ByteNum(DataAt(data, index + 4))),
                                   state.scale),
                            DataAt(data, index + 1), DataAt(data, index + 2),
                            ByteBits(DataAt(data, index + 5)))))

\* The segment from the pen position to end: with the pen down, end alone
\* for bulge 0 and else the arc's points but the first.
ArcSegmentTo(state, end, bulge) ==
  [state EXCEPT !.currentPoint = end,
                !.currentPolyline =
                  IF state.isPenDown
                  THEN @ \o (IF bulge = 0 THEN <<end>>
                             ELSE Tail(BulgeArcPoints(state.currentPoint, end, bulge)))
                  ELSE @]

\* handleArcSegment: returns the state with the new pen position.
handleArcSegment(state, x, y, bulgeByte) ==
  ArcSegmentTo(state,
               PointAdd(state.currentPoint,
                        PointMultiply(Point(SByteNum(x), SByteNum(y)), state.scale)),
               IF bulgeByte # Undef /\ bulgeByte < 0 - 127 THEN 0 - 127 ELSE bulgeByte)

handleBulgeArc(data, index, state) ==
  Ok(index + 3,
     handleArcSegment(state, byteToSByte(DataAt(data, index + 1)),
                      byteToSByte(DataAt(data, index + 2)),
                      byteToSByte(DataAt(data, index + 3))))

\* The while (true) loop of handleMultipleBulgeArcs; it cannot end once a
\* read is past the end of the array.
RECURSIVE handleMultipleBulgeArcs(_, _, _)
handleMultipleBulgeArcs(data, index, state) ==
  LET x == byteToSByte(DataAt(data, index + 1))
      y == byteToSByte(DataAt(data, index + 2))
      bulge == byteToSByte(DataAt(data, index + 3))
  IN  IF x = 0 /\ y = 0 THEN Ok(index + 2, state)
      ELSE IF index + 2 >= Len(data) THEN Hang(index + 2, state)
      ELSE handleMultipleBulgeArcs(data, index + 3, handleArcSegment(state, x, y, bulge))

\* The loops of skipCode for opcodes 9 (stride 2) and 13 (stride 3): the
\* index of the second byte of the first (0,0) pair, or no end.
RECURSIVE SkipRun(_, _, _)
SkipRun(data, index, stride) ==
  LET x == DataAt(data, index + 1)
      y == DataAt(data, index + 2)
  IN  IF x = 0 /\ y = 0 THEN [hang |-> FALSE, index |-> index + 2]
      ELSE IF index + 2 >= Len(data) THEN [hang |-> TRUE, index |-> index + 2]
      ELSE SkipRun(data, index + stride, stride)

\* skipCode(data, index): index is that of the command to skip.
skipCode(font, data, index) ==
  LET cb == DataAt(data, index)
      At(k) == [hang |-> FALSE, index |-> k]
  IN  CASE cb = 3 \/ cb = 4 -> At(index + 1)
        [] cb = 7 ->
             (CASE font.fontType = SHAPES -> At(index + 1)
                [] font.fontType = BIGFONT ->
                     IF DataAt(data, index + 1) = 0
                     THEN At(index + 1 + (IF font.isExtended THEN 6 ELSE 5))
                     ELSE At(index + 1)
                [] OTHER -> At(index + 2))
        [] cb = 8 -> At(index + 2)
        [] cb = 9 -> SkipRun(data, index, 2)
        [] cb = 10 -> At(index + 2)
        [] cb = 11 -> At(index + 5)
        [] cb = 12 -> At(index + 3)
        [] cb = 13 -> SkipRun(data, index, 3)
        [] OTHER -> At(index)

\* (data[i] << 8) | data[i + 1]
Code16(data, i) == ByteBits(DataAt(data, i)) * 256 + ByteBits(DataAt(data, i + 1))

\* handleSubshapeCommand up to the call of getScaledSubshapeAtInsertPoint:
\* the operands read, and the polyline under construction committed.
handleSubshapeCommand(font, data, index, state) ==
  LET height0 == NumMul(state.scale, Int2Num(ContentHeight(font)))
      committed ==
        IF Len(state.currentPolyline) > 1
        THEN [state EXCEPT !.polylines = Append(@, state.currentPolyline),
                           !.currentPolyline = <<>>]
        ELSE state
      Sub(i, subCode, width, height, origin) ==
        [kind |-> "sub", i |-> i, state |-> committed, error |-> "",
         subCode |-> subCode, width |-> width, height |-> height, origin |-> origin]
      SNum(k) == NumMul(SByteNum(byteToSByte(DataAt(data, k))), state.scale)
      BNum(k) == NumMul(ByteNum(DataAt(data, k)), state.scale)
  IN  CASE font.fontType = SHAPES ->
             Sub(index + 1, DataAt(data, index + 1), height0, height0, state.currentPoint)
        [] font.fontType = BIGFONT ->
             IF DataAt(data, index + 1) = 0
             THEN IF font.isExtended
                  THEN Sub(index + 7, Code16(data, index + 2), BNum(index + 6), BNum(index + 7),
                           Point(SNum(index + 4), SNum(index + 5)))
                  ELSE Sub(index + 6, Code16(data, index + 2), height0, BNum(index + 6),
                           Point(SNum(index + 4), SNum(index + 5)))
             ELSE Sub(index + 1, DataAt(data, index + 1), height0, height0, state.currentPoint)
        [] OTHER ->
             Sub(index + 3, Code16(data, index + 1), height0, height0, state.currentPoint)

\* The position stack is only four locations deep.
StackDepth == 4

handleSpecialCommand(font, command, data, index, state) ==
  CASE command = 0 ->
         Ok(index, [state EXCEPT !.currentPolyline = <<>>, !.isPenDown = FALSE])
    [] command = 1 ->
         Ok(index, [state EXCEPT !.isPenDown = TRUE,
                                 !.currentPolyline = Append(@, state.currentPoint)])
    [] command = 2 ->
         Ok(index, [state EXCEPT !.isPenDown = FALSE,
                                 !.polylines = IF Len(state.currentPolyline) > 1
                                               THEN Append(@, state.currentPolyline) ELSE @,
                                 !.currentPolyline = <<>>])
    [] command = 3 ->
         Ok(index + 1, [state EXCEPT !.scale = NumDiv(@, ByteNum(DataAt(data, index + 1)))])
    [] command = 4 ->
         Ok(index + 1, [state EXCEPT !.scale = NumMul(@, ByteNum(DataAt(data, index + 1)))])
    [] command = 5 ->
         IF Len(state.sp) = StackDepth THEN Throw(index, state, "Error")
         ELSE Ok(index, [state EXCEPT !.sp = Append(@, state.currentPoint)])
    [] command = 6 ->
         IF state.sp = <<>> THEN Ok(index, state)
         ELSE Ok(index, [state EXCEPT !.currentPoint = state.sp[Len(state.sp)],
                                      !.sp = SubSeq(@, 1, Len(@) - 1)])
    [] command = 7 -> handleSubshapeCommand(font, data, index, state)
    [] command = 8 -> handleXYDisplacement(data, index, state)
    [] command = 9 -> handleMultipleXYDisplacements(data, index, state)
    [] command = 10 -> handleOctantArc(data, index, state)
    [] command = 11 -> handleFractionalArc(data, index, state)
    [] command = 12 -> handleBulgeArc(data, index, state)
    [] command = 13 -> handleMultipleBulgeArcs(data, index, state)
    [] command = 14 ->
         LET s == skipCode(font, data, index + 1)
         IN  IF s.hang THEN Hang(s.index, state) ELSE Ok(s.index, state)
    [] OTHER -> Ok(index, state)

\* A variant in which opcode 2 commits the polyline under construction
\* whatever its length.
CommandCommittingAny(font, data, i, state) ==
  IF data[i + 1] = 2
  THEN Ok(i, [state EXCEPT !.isPenDown = FALSE,
                           !.polylines = Append(@, state.currentPolyline),
                           !.currentPolyline = <<>>])
  ELSE IF data[i + 1] <= 15 THEN handleSpecialCommand(font, data[i + 1], data, i, state)
  ELSE Ok(i, handleVectorCommand(data[i + 1], state))

\* A variant in which opcode 6 takes the top off the stack and leaves the pen
\* where it is.
CommandNotRestoring(font, data, i, state) ==
  IF data[i + 1] = 6
  THEN Ok(i, [state EXCEPT !.sp = IF @ = <<>> THEN @ ELSE SubSeq(@, 1, Len(@) - 1)])
  ELSE IF data[i + 1] <= 15 THEN handleSpecialCommand(font, data[i + 1], data, i, state)
  ELSE Ok(i, handleVectorCommand(data[i + 1], state))

\* A variant in which opcode 5 pushes whatever the depth of the stack.
CommandPushingFreely(font, data, i, state) ==
  IF data[i + 1] = 5 THEN Ok(i, [state EXCEPT !.sp = Append(@, state.currentPoint)])
  ELSE IF data[i + 1] <= 15 THEN handleSpecialCommand(font, data[i + 1], data, i, state)
  ELSE Ok(i, handleVectorCommand(data[i + 1], state))

\* One pass of the body of parseShape's for loop, at index i.
Command(font, data, i, state) ==
  LET cb == data[i + 1]
  IN  IF cb <= 15 THEN handleSpecialCommand(font, cb, data, i, state)
      ELSE Ok(i, handleVectorCommand(cb, state))

\* -------------------------------------------------------------------------
\* Fonts and requests the model draws from
\* -------------------------------------------------------------------------

\* A glyph table as a function from codes to bytecode.
Glyphs(c1, c2, c3) == (1 :> c1) @@ (2 :> c2) @@ (3 :> c3)

Font(fontType, isExtended, baseUp, data) ==
  [fontType |-> fontType, isExtended |-> isExtended, baseUp |-> baseUp, data |-> data]

\* 1: two strokes; 2: draws 1 twice as a sub-glyph; 3: five pushes.
\* Code 0 holds the info block, as in a decoded Shapes font.
FontStrokes ==
  Font(SHAPES, FALSE, 2,
       (0 :> <<65, 0, 2, 0, 0>>)
       @@ Glyphs(<<1, 36, 32, 2, 1, 44, 2, 0>>, <<1, 32, 7, 1, 4, 2, 7, 1, 0>>,
                 <<1, 32, 2, 5, 5, 5, 5, 7, 1, 5, 0>>))

\* 1 draws itself; 2 and 3 draw each other.
FontCycles == Font(SHAPES, FALSE, 4, Glyphs(<<7, 1, 0>>, <<1, 32, 7, 3>>, <<7, 2, 0>>))

\* Runs of opcode 9 and 13 without a (0,0) pair, executed and skipped.
FontRuns ==
  Font(SHAPES, FALSE, 3,
       Glyphs(<<1, 9, 1, 1, 2, 255, 0, 0, 2, 14, 9, 3, 3, 0, 0, 0>>,
              <<14, 9, 1, 1>>, <<1, 13, 2, 0, 64, 1>>))

\* Octant arcs: radius 1; radius byte 0; an arc after the scale was divided by 0.
FontArcs ==
  Font(SHAPES, FALSE, 1,
       Glyphs(<<1, 10, 1, 2, 2, 0>>, <<1, 32, 10, 0, 1, 2>>, <<3, 0, 1, 32, 10, 1, 1, 2>>))

\* Operands cut off at the end of the array; a bulge arc; a fractional arc.
FontCut ==
  Font(SHAPES, FALSE, 2,
       Glyphs(<<1, 32, 8, 1>>, <<1, 12, 2, 0, 127, 13, 0, 2, 128, 0, 0, 2, 3>>,
              <<1, 11, 0, 0, 0, 1, 1, 2, 7>>))

\* A Bigfont: 1 is drawn by 2 through the short form and by 3 through the
\* long form (code 0x0001 at (1, 2), height 4).
FontBig ==
  Font(BIGFONT, FALSE, 2,
       Glyphs(<<8, 1, 1, 1, 36, 32, 2>>, <<1, 32, 2, 7, 1, 1, 20, 2>>,
              <<7, 0, 0, 1, 1, 2, 4, 5, 6, 1, 8, 255, 1, 2>>))

\* An extended Bigfont: 2 draws 1 at (255 = -1, 0), width 3, height 2, and
\* an absent code.
FontBigExt ==
  Font(BIGFONT, TRUE, 4,
       Glyphs(<<1, 34, 2>>, <<7, 0, 0, 1, 255, 0, 3, 2, 1, 32, 2>>, <<7, 9, 4, 2, 1, 18, 2>>))

\* A Unifont: 2 draws code 0x0001; 3 multiplies and divides the scale.
FontUni ==
  Font(UNIFONT, FALSE, 3,
       Glyphs(<<1, 40, 2>>, <<7, 0, 1, 2, 1, 36, 2>>, <<4, 3, 1, 16, 3, 2, 17, 2>>))

Fonts == {FontStrokes, FontCycles, FontRuns, FontArcs, FontCut, FontBig, FontBigExt, FontUni}

\* Codes asked for: 0, the codes of the table, and a code no font has.
Codes == 0..4

\* Sizes asked for: a size and its double.
Sizes == {1, 2}

\* getCharShape calls per behaviour.
MaxCalls == 3

\* getCharShape calls per behaviour where Points are objects.
ObjMaxCalls == 2

\* Nested parseShape calls the engine's call stack holds; one more exhausts
\* it (RangeError: Maximum call stack size exceeded).
CallStackLimit == 4

\* -------------------------------------------------------------------------
\* State
\* -------------------------------------------------------------------------

VARIABLES
  fontData,     \* the decoded font the ShxFont was constructed with
  shapeCache,   \* ShxShapeParser.shapeCache: code -> unscaled shape
  shapeData,    \* ShxShapeParser.shapeData: code -> unscaled shape
  frames,       \* the parseShape calls in progress, innermost last
  request,      \* the getCharShape call in progress: code, size, cache at its start
  outcome,      \* how the last public operation ended
  nCalls,       \* getCharShape calls made
  parses,       \* code -> parseShape calls started since construction or release
  completed,    \* code -> parseShape calls that returned since construction or release
  results,      \* <<code, size>> -> the shape getCharShape first returned for it
  overflowed,   \* the codes whose request raised the position stack error
  heap,         \* the Point objects allocated, where objects are told apart
  buffer,       \* the ArrayBuffer an ShxFont is constructed from
  loaded,       \* what the construction from the buffer made
  arc           \* an Arc on its own: what it is built from, the Arc and its points

\* What the model of the font as values leaves alone.
aside == <<heap, buffer, loaded, arc>>

vars == <<fontData, shapeCache, shapeData, frames, request, outcome, nCalls,
          parses, completed, results, overflowed, aside>>

EmptyMap == [c \in {} |-> 0]

NoShape == ShxShape(Origin, <<>>)

\* kind: "none" (nothing called yet), "shape", "undefined", "threw", "hang"
\* (the call never returns) or "released".  shape is what ShxFont.getCharShape
\* returned and parserShape what ShxShapeParser.getCharShape returned;
\* fromCache: the base shape was found in shapeCache; again: a shape had
\* been returned for this code and size before.
Outcome(kind, code, size, shape, parserShape, error) ==
  [kind |-> kind, code |-> code, size |-> size, shape |-> shape,
   parserShape |-> parserShape, error |-> error, fromCache |-> FALSE, again |-> FALSE]

NoRequest == [code |-> 0, size |-> 0, cacheBefore |-> EmptyMap]

\* A variant in which a sub-glyph starts from the pen position, the scale
\* factor and the pen flag of the call that draws it.
FrameFromParent(code, data) ==
  [code |-> code, data |-> data, i |-> 0,
   state |-> IF frames = <<>> THEN NewState
             ELSE [NewState EXCEPT !.currentPoint = frames[Len(frames)].state.currentPoint,
                                   !.scale = frames[Len(frames)].state.scale,
                                   !.isPenDown = frames[Len(frames)].state.isPenDown],
   width |-> Zero, height |-> Zero, origin |-> Origin]

\* A parseShape call in progress: its code and data, the loop index, its
\* local state and, while it waits for a sub-glyph, the size and origin
\* computed for that sub-glyph.
Frame(code, data) ==
  [code |-> code, data |-> data, i |-> 0, state |-> NewState,
   width |-> Zero, height |-> Zero, origin |-> Origin]

\* What the constructor made besides fontData: status is "pending" before
\* the constructor runs, "done" once the ShxFont exists and "threw" when the
\* constructor threw; failed: the content parser's catch block ran.
Loaded(status, fileHeader, fileVersion, content) ==
  [status |-> status, fileHeader |-> fileHeader, fileVersion |-> fileVersion,
   info |-> content.info, baseDown |-> content.baseDown,
   orientation |-> content.orientation, failed |-> content.failed]

\* No Arc is looked at on its own.
NoArc == [stage |-> "none"]

\* An ShxFont constructed from ShxFontData at hand.
Constructed ==
  Loaded("done", <<>>, <<>>,
         [info |-> <<>>, baseDown |-> 0, orientation |-> "horizontal", failed |-> FALSE])

Init ==
  /\ fontData \in Fonts
  /\ shapeCache = EmptyMap
  /\ shapeData = EmptyMap
  /\ frames = <<>>
  /\ request = NoRequest
  /\ outcome = Outcome("none", 0, 0, NoShape, NoShape, "")
  /\ nCalls = 0
  /\ parses = [c \in Codes |-> 0]
  /\ completed = [c \in Codes |-> 0]
  /\ results = [k \in {} |-> NoShape]
  /\ overflowed = {}
  /\ heap = <<>>
  /\ buffer = <<>>
  /\ loaded = Constructed
  /\ arc = NoArc

\* No call is in progress on the font constructed.
Idle == frames = <<>> /\ outcome.kind # "hang" /\ loaded.status = "done"

Top == frames[Len(frames)]

\* -------------------------------------------------------------------------
\* Cache and facade
\* -------------------------------------------------------------------------

\* A variant that stores the shape as scaled for the request in progress.
CacheSetScaled(cache, code, shape) ==
  [c \in DOMAIN cache \cup {code} |->
     IF c = code
     THEN scaleShapeByFactor(shape, NumDiv(Int2Num(request.size),
                                           Int2Num(ContentHeight(fontData))))
     ELSE cache[c]]

\* shapeCache.set(code, shape) / shapeData.set(code, shape)
CacheSet(cache, code, shape) ==
  [c \in DOMAIN cache \cup {code} |-> IF c = code THEN shape ELSE cache[c]]

\* A variant that divides in integers.
ScaleFactorTruncated(font, size) == Int2Num(size \div ContentHeight(font))

\* The scale ShxShapeParser.getCharShape passes on: size / content.height.
ScaleFactor(font, size) == NumDiv(Int2Num(size), Int2Num(ContentHeight(font)))

\* ShxShapeParser.getCharShape once the base shape is at hand.
ParserShape(font, baseShape, size) == scaleShapeByFactor(baseShape, ScaleFactor(font, size))

\* ShxFont.getCharShape: a Bigfont's shape is normalized to the origin.
FacadeShape(font, shape) ==
  IF font.fontType = BIGFONT THEN normalizeToOrigin(shape) ELSE shape

\* The first shape returned for each code and size.
Remember(code, size, shape) ==
  IF <<code, size>> \in DOMAIN results THEN results
  ELSE [k \in DOMAIN results \cup {<<code, size>>} |->
          IF k = <<code, size>> THEN shape ELSE results[k]]

\* getCharShape returns: parserShape is what the parser made of the base
\* shape, and the facade passes it on.
Returned(code, size, parserShape, fromCache) ==
  /\ outcome' = [Outcome("shape", code, size, FacadeShape(fontData, parserShape),
                         parserShape, "")
                 EXCEPT !.fromCache = fromCache,
                        !.again = <<code, size>> \in DOMAIN results]
  /\ results' = Remember(code, size, outcome'.shape)

\* A variant that does not consult the cache.
LookupUncached(code) ==
  IF code = 0 THEN "none"
  ELSE IF HasData(fontData, code) THEN "parse"
  ELSE "none"

\* A variant without the test for code 0.
LookupZero(code) ==
  IF code \in DOMAIN shapeCache THEN "cached"
  ELSE IF HasData(fontData, code) THEN "parse"
  ELSE "none"

\* What parseAndScale does for a code: nothing for code 0, the cached base
\* shape if there is one, else the interpretation of the code's data if it
\* has any.
Lookup(code) ==
  IF code = 0 THEN "none"
  ELSE IF code \in DOMAIN shapeCache THEN "cached"
  ELSE IF HasData(fontData, code) THEN "parse"
  ELSE "none"

\* -------------------------------------------------------------------------
\* Operations
\* -------------------------------------------------------------------------

\* ShxFont.getCharShape(code, size) up to the first parseShape call: the
\* answer for code 0, a cached code or an unknown code, or the start of the
\* interpretation of the code's bytecode.
GetCharShape(code, size) ==
  /\ Idle
  /\ nCalls < MaxCalls
  /\ nCalls' = nCalls + 1
  /\ UNCHANGED <<aside, fontData, shapeCache, shapeData, completed, overflowed>>
  /\ CASE Lookup(code) = "cached" ->
            /\ Returned(code, size, ParserShape(fontData, shapeCache[code], size), TRUE)
            /\ UNCHANGED <<frames, request, parses>>
       [] Lookup(code) = "parse" ->
            /\ frames' = <<Frame(code, fontData.data[code])>>
            /\ request' = [code |-> code, size |-> size, cacheBefore |-> shapeCache]
            /\ parses' = [parses EXCEPT ![code] = @ + 1]
            /\ UNCHANGED <<outcome, results>>
       [] OTHER ->
            /\ outcome' = Outcome("undefined", code, size, NoShape, NoShape, "")
            /\ UNCHANGED <<frames, request, parses, results>>

\* A variant in which the requested code keeps an entry made before its
\* interpretation began.
RaiseCachingPartial(error) ==
  /\ frames' = <<>>
  /\ outcome' = Outcome("threw", request.code, request.size, NoShape, NoShape, error)
  /\ request' = NoRequest
  /\ overflowed' = IF error = "Error" THEN overflowed \cup {request.code} ELSE overflowed
  /\ shapeCache' = [c \in DOMAIN shapeCache \cup {request.code} |->
                      IF c = request.code THEN NoShape ELSE shapeCache[c]]
  /\ UNCHANGED <<aside, fontData, shapeData, nCalls, parses, completed, results>>

\* The exception leaves every parseShape call in progress and getCharShape.
Raise(error) ==
  /\ frames' = <<>>
  /\ outcome' = Outcome("threw", request.code, request.size, NoShape, NoShape, error)
  /\ request' = NoRequest
  /\ overflowed' = IF error = "Error" THEN overflowed \cup {request.code} ELSE overflowed
  /\ UNCHANGED <<aside, fontData, shapeCache, shapeData, nCalls, parses, completed, results>>

\* A variant in which the pen is up after opcode 7.
AfterSubshapePenUp(frame, r, polylines) ==
  [frame EXCEPT !.i = r.i + 1,
                !.state = [r.state EXCEPT !.polylines = @ \o polylines,
                                          !.currentPolyline = <<>>,
                                          !.isPenDown = FALSE]]

\* The parent frame after opcode 7: the sub-glyph's polylines (none when it
\* was not found) spliced in, the polyline under construction reset.
AfterSubshape(frame, r, polylines) ==
  [frame EXCEPT !.i = r.i + 1,
                !.state = [r.state EXCEPT !.polylines = @ \o polylines,
                                          !.currentPolyline = <<>>]]

\* getScaledSubshapeAtInsertPoint for the operands r of opcode 7 read in
\* frame f, the innermost of n: a cached sub-glyph is drawn, one with data is
\* interpreted first, one without draws nothing.
Subshape(f, n, r) ==
  IF r.subCode # 0 /\ r.subCode \in DOMAIN shapeCache
  THEN /\ frames' = [frames EXCEPT ![n] =
            AfterSubshape(f, r, ScaledSubshapeAt(shapeCache[r.subCode], r.width,
                                                 r.height, r.origin).polylines)]
       /\ UNCHANGED <<aside, fontData, shapeCache, shapeData, request, outcome, nCalls,
                      parses, completed, results, overflowed>>
  ELSE IF r.subCode # 0 /\ HasData(fontData, r.subCode)
  THEN IF n = CallStackLimit
       THEN Raise("RangeError")
       ELSE /\ frames' = Append(
                 [frames EXCEPT ![n] = [f EXCEPT !.i = r.i, !.state = r.state,
                                                 !.width = r.width,
                                                 !.height = r.height,
                                                 !.origin = r.origin]],
                 Frame(r.subCode, fontData.data[r.subCode]))
            /\ parses' = [parses EXCEPT ![r.subCode] = @ + 1]
            /\ UNCHANGED <<aside, fontData, shapeCache, shapeData, request, outcome,
                           nCalls, completed, results, overflowed>>
  ELSE /\ frames' = [frames EXCEPT ![n] = AfterSubshape(f, r, <<>>)]
       /\ UNCHANGED <<aside, fontData, shapeCache, shapeData, request, outcome, nCalls,
                      parses, completed, results, overflowed>>

\* The loop of frame f, the innermost of n, goes on from what the command
\* at its index yielded.
Continue(f, n, r) ==
  CASE r.kind = "ok" ->
         /\ frames' = [frames EXCEPT ![n] = [f EXCEPT !.i = r.i + 1, !.state = r.state]]
         /\ UNCHANGED <<aside, fontData, shapeCache, shapeData, request, outcome, nCalls,
                        parses, completed, results, overflowed>>
    [] r.kind = "throw" -> Raise(r.error)
    [] r.kind = "hang" ->
         /\ outcome' = Outcome("hang", request.code, request.size, NoShape, NoShape, "")
         /\ UNCHANGED <<aside, fontData, shapeCache, shapeData, frames, request, nCalls,
                        parses, completed, results, overflowed>>
    [] OTHER -> Subshape(f, n, r)

\* One pass of the loop of the innermost parseShape call.
Step ==
  /\ frames # <<>>
  /\ outcome.kind # "hang"
  /\ Top.i < Len(Top.data)
  /\ Continue(Top, Len(frames), Command(fontData, Top.data, Top.i, Top.state))

\* The innermost parseShape call has run off the end of its data.
Finished == frames # <<>> /\ outcome.kind # "hang" /\ Top.i >= Len(Top.data)

\* The shape parseShape returns.
ParsedShape(frame) == ShxShape(frame.state.currentPoint, frame.state.polylines)

\* parseShape returns to getScaledSubshapeAtInsertPoint, which caches the
\* shape and hands the scaled copy to handleSubshapeCommand.
ReturnSub ==
  /\ Finished
  /\ Len(frames) > 1
  /\ LET child == Top
         n == Len(frames) - 1
         parent == frames[n]
         baseShape == ParsedShape(child)
     IN  /\ shapeData' = CacheSet(shapeData, child.code, baseShape)
         /\ shapeCache' = CacheSet(shapeCache, child.code, baseShape)
         /\ completed' = [completed EXCEPT ![child.code] = @ + 1]
         /\ frames' = [SubSeq(frames, 1, n) EXCEPT ![n] =
              AfterSubshape(parent, parent,
                            ScaledSubshapeAt(baseShape, parent.width, parent.height,
                                             parent.origin).polylines)]
  /\ UNCHANGED <<aside, fontData, request, outcome, nCalls, parses, results, overflowed>>

\* parseShape returns to parseAndScale, which caches the shape; getCharShape
\* returns the scaled copy.
ReturnTop ==
  /\ Finished
  /\ Len(frames) = 1
  /\ LET baseShape == ParsedShape(Top)
     IN  /\ shapeData' = CacheSet(shapeData, Top.code, baseShape)
         /\ shapeCache' = CacheSet(shapeCache, Top.code, baseShape)
         /\ completed' = [completed EXCEPT ![Top.code] = @ + 1]
         /\ Returned(request.code, request.size,
                     ParserShape(fontData, baseShape, request.size), FALSE)
  /\ frames' = <<>>
  /\ request' = NoRequest
  /\ UNCHANGED <<aside, fontData, nCalls, parses, overflowed>>

\* A variant that clears shapeCache alone.
ReleaseShapeCacheOnly ==
  /\ Idle
  /\ shapeCache' = EmptyMap
  /\ outcome' = Outcome("released", 0, 0, NoShape, NoShape, "")
  /\ parses' = [c \in Codes |-> 0]
  /\ completed' = [c \in Codes |-> 0]
  /\ UNCHANGED <<aside, fontData, shapeData, frames, request, nCalls, results, overflowed>>

\* ShxFont.release()
Release ==
  /\ Idle
  /\ shapeCache' = EmptyMap
  /\ shapeData' = EmptyMap
  /\ outcome' = Outcome("released", 0, 0, NoShape, NoShape, "")
  /\ parses' = [c \in Codes |-> 0]
  /\ completed' = [c \in Codes |-> 0]
  /\ UNCHANGED <<aside, fontData, frames, request, nCalls, results, overflowed>>

Next ==
  \/ \E code \in Codes, size \in Sizes : GetCharShape(code, size)
  \/ Step
  \/ ReturnSub
  \/ ReturnTop
  \/ Release

Spec == Init /\ [][Next]_vars

\* -------------------------------------------------------------------------
\* The interpretation of a code by a parser whose caches are empty
\* -------------------------------------------------------------------------

NoResult == [ok |-> FALSE, shape |-> NoShape]

RECURSIVE ParseFrom(_, _, _, _, _)
RECURSIVE ParseOn(_, _, _, _)
RECURSIVE ParseSpliced(_, _, _, _, _)

\* parseShape(data) from index i on, as the depth-th nested call; ok is
\* FALSE when the call does not return.
ParseFrom(font, data, i, state, depth) ==
  IF i >= Len(data)
  THEN [ok |-> TRUE, shape |-> ShxShape(state.currentPoint, state.polylines)]
  ELSE ParseOn(font, data, depth, Command(font, data, i, state))

\* The loop goes on from what a command yielded; a sub-glyph with data is
\* interpreted in place.
ParseOn(font, data, depth, r) ==
  CASE r.kind = "ok" -> ParseFrom(font, data, r.i + 1, r.state, depth)
    [] r.kind = "sub" ->
         IF r.subCode # 0 /\ HasData(font, r.subCode)
         THEN IF depth = CallStackLimit THEN NoResult
              ELSE ParseSpliced(font, data, depth, r,
                                ParseFrom(font, font.data[r.subCode], 0, NewState, depth + 1))
         ELSE ParseFrom(font, data, r.i + 1, AfterSubshape(r, r, <<>>).state, depth)
    [] OTHER -> NoResult

\* The loop goes on with the sub-glyph's polylines spliced in.
ParseSpliced(font, data, depth, r, sub) ==
  IF ~sub.ok THEN NoResult
  ELSE ParseFrom(font, data, r.i + 1,
                 AfterSubshape(r, r, ScaledSubshapeAt(sub.shape, r.width, r.height,
                                                      r.origin).polylines).state,
                 depth)

\* The unscaled glyph of a code that has data.
FreshGlyph(font, code) == ParseFrom(font, font.data[code], 0, NewState, 1).shape

\* What getCharShape(code, size) returns on a font just constructed.
FreshShape(font, code, size) ==
  FacadeShape(font, ParserShape(font, FreshGlyph(font, code), size))

\* -------------------------------------------------------------------------
\* The interpreter on Point objects
\*
\* Here a Point is an object: heap[id] holds the coordinates of the object
\* id, and the interpreter's state, the caches and the shapes returned hold
\* object ids.  add, subtract and multiply change the object in place;
\* clone() and new Point() make an object.
\* -------------------------------------------------------------------------

\* The ids of the n objects made next.
NewIds(h, n) == [k \in 1..n |-> Len(h) + k]

\* The shape whose points are the objects a shape of ids names.
Deref(h, shape) ==
  ShxShape(h[shape.lastPoint],
           [j \in 1..Len(shape.polylines) |->
              [k \in 1..Len(shape.polylines[j]) |-> h[shape.polylines[j][k]]]])

\* What one command handler yields, as Ok, Throw and Hang do, with the heap
\* it leaves; origin is the id of the insertion point made for opcode 7.
ObjOk(i, state, h) ==
  [kind |-> "ok", i |-> i, state |-> state, heap |-> h, error |-> "",
   subCode |-> 0, width |-> Zero, height |-> Zero, origin |-> 0]

ObjThrow(i, state, h, error) ==
  [ObjOk(i, state, h) EXCEPT !.kind = "throw", !.error = error]

ObjHang(i, state, h) == [ObjOk(i, state, h) EXCEPT !.kind = "hang"]

\* A handler that touches no Point: what it yields, with the heap as it was.
ObjKeep(r, h) ==
  [kind |-> r.kind, i |-> r.i, state |-> r.state, heap |-> h, error |-> r.error,
   subCode |-> 0, width |-> Zero, height |-> Zero, origin |-> 0]

\* A variant that pushes the pen position itself.
ObjEmitAlias(state, h) ==
  IF state.isPenDown
  THEN [state |-> [state EXCEPT !.currentPolyline = Append(@, state.currentPoint)],
        heap |-> h]
  ELSE [state |-> state, heap |-> h]

\* state.currentPoint.add(vec), then with the pen down
\* state.currentPolyline.push(state.currentPoint.clone()), on the heap h
\* where the pen position has been moved already.
ObjEmit(state, h) ==
  IF state.isPenDown
  THEN [state |-> [state EXCEPT !.currentPolyline = Append(@, Len(h) + 1)],
        heap |-> Append(h, h[state.currentPoint])]
  ELSE [state |-> state, heap |-> h]

ObjMovePen(state, h, vec) ==
  ObjEmit(state, [h EXCEPT ![state.currentPoint] = PointAdd(@, vec)])

ObjMoved(i, m) == ObjOk(i, m.state, m.heap)

ObjVectorCommand(command, state, h) ==
  ObjMovePen(state, h,
             PointMultiply(getVectorForDirection(command % 16),
                           NumMul(Int2Num(command \div 16), state.scale)))

ObjXYDisplacement(data, index, state, h) ==
  ObjMoved(index + 2,
           ObjMovePen(state, h,
                      PointMultiply(Point(SByteNum(byteToSByte(DataAt(data, index + 1))),
                                          SByteNum(byteToSByte(DataAt(data, index + 2)))),
                                    state.scale)))

RECURSIVE ObjMultipleXYDisplacements(_, _, _, _)
RECURSIVE ObjMultipleXYFrom(_, _, _)
ObjMultipleXYDisplacements(data, index, state, h) ==
  IF byteToSByte(DataAt(data, index + 1)) = 0 /\ byteToSByte(DataAt(data, index + 2)) = 0
  THEN ObjOk(index + 2, state, h)
  ELSE IF index + 2 >= Len(data) THEN ObjHang(index + 2, state, h)
  ELSE ObjMultipleXYFrom(
         data, index + 2,
         ObjMovePen(state, h,
                    PointMultiply(Point(SByteNum(byteToSByte(DataAt(data, index + 1))),
                                        SByteNum(byteToSByte(DataAt(data, index + 2)))),
                                  state.scale)))

ObjMultipleXYFrom(data, index, m) == ObjMultipleXYDisplacements(data, index, m.state, m.heap)

\* handleOctantArc with the tessellation t: the points of the first
\* tessellate() call replace the last point of the polyline when the pen is
\* down, and the pen position becomes a clone of the last point of a second
\* tessellate() call.
ObjOctantArcDrawn(index, state, h, t) ==
  IF t.threw THEN ObjThrow(index + 2, state, h, "TypeError")
  ELSE IF state.isPenDown
  THEN ObjOk(index + 2,
             [state EXCEPT !.currentPolyline =
                             (IF @ = <<>> THEN <<>> ELSE SubSeq(@, 1, Len(@) - 1))
                             \o NewIds(h, Len(t.points)),
                           !.currentPoint = Len(h) + Len(t.points) + 1],
             (h \o t.points) \o <<t.points[Len(t.points)]>>)
  ELSE ObjOk(index + 2, [state EXCEPT !.currentPoint = Len(h) + 1],
             Append(h, t.points[Len(t.points)]))

ObjOctantArc(data, index, state, h) ==
  ObjOctantArcDrawn(index, state, h,
                    tessellateOctant(OctantArcFrom(h[state.currentPoint],
                                                   NumMul(ByteNum(DataAt(data, index + 1)),
                                                          state.scale),
                                                   ByteBits(DataAt(data, index + 2)))))

\* The pen position becomes a new Point at the end of the arc; with the pen
\* down the points, each a new Point, are pushed.
ObjArcDrawn(i, state, h, end, points) ==
  IF state.isPenDown
  THEN ObjOk(i, [state EXCEPT !.currentPoint = Len(h) + 1,
                              !.currentPolyline = @ \o NewIds(Append(h, end), Len(points))],
             Append(h, end) \o points)
  ELSE ObjOk(i, [state EXCEPT !.currentPoint = Len(h) + 1], Append(h, end))

ObjFractionalArcDrawn(i, state, h, points) ==
  ObjArcDrawn(i, state, h, points[Len(points)], points)

ObjFractionalArc(data, index, state, h) ==
  ObjFractionalArcDrawn(
    index + 5, state, h,
    FractionalArc(h[state.currentPoint],
                  NumMul(NumAdd(NumMul(ByteNum(DataAt(data, index + 3)), Int2Num(255)),
                                ByteNum(DataAt(data, index + 4))),
                         state.scale),
                  DataAt(data, index + 1), DataAt(data, index + 2),
                  ByteBits(DataAt(data, index + 5))))

\* handleArcSegment: newPoint is a clone of the pen position, what is
\* pushed are clones moved by vec or the arc's own points, and newPoint,
\* moved by vec, is returned as the pen position.
ObjArcSegmentTo(i, state, h, end, bulge) ==
  ObjArcDrawn(i, state, h, end,
              IF bulge = 0 THEN <<end>>
              ELSE Tail(BulgeArcPoints(h[state.currentPoint], end, bulge)))

ObjArcSegment(i, state, h, x, y, bulgeByte) ==
  ObjArcSegmentTo(i, state, h,
                  PointAdd(h[state.currentPoint],
                           PointMultiply(Point(SByteNum(x), SByteNum(y)), state.scale)),
                  IF bulgeByte # Undef /\ bulgeByte < 0 - 127 THEN 0 - 127 ELSE bulgeByte)

ObjBulgeArc(data, index, state, h) ==
  ObjArcSegment(index + 3, state, h, byteToSByte(DataAt(data, index + 1)),
                byteToSByte(DataAt(data, index + 2)),
                byteToSByte(DataAt(data, index + 3)))

RECURSIVE ObjMultipleBulgeArcs(_, _, _, _)
RECURSIVE ObjMultipleBulgeFrom(_, _, _)
ObjMultipleBulgeArcs(data, index, state, h) ==
  IF byteToSByte(DataAt(data, index + 1)) = 0 /\ byteToSByte(DataAt(data, index + 2)) = 0
  THEN ObjOk(index + 2, state, h)
  ELSE IF index + 2 >= Len(data) THEN ObjHang(index + 2, state, h)
  ELSE ObjMultipleBulgeFrom(
         data, index + 3,
         ObjArcSegment(index + 3, state, h, byteToSByte(DataAt(data, index + 1)),
                       byteToSByte(DataAt(data, index + 2)),
                       byteToSByte(DataAt(data, index + 3))))

ObjMultipleBulgeFrom(data, index, r) == ObjMultipleBulgeArcs(data, index, r.state, r.heap)

\* handleSubshapeCommand up to the call of getScaledSubshapeAtInsertPoint:
\* origin is a clone of the pen position, which the long form of a Bigfont
\* then writes x and y of; r is what the operands read yield.
ObjSub(r, state, h) ==
  [kind |-> "sub", i |-> r.i,
   state |-> [r.state EXCEPT !.currentPoint = state.currentPoint],
   heap |-> Append(h, r.origin), error |-> "",
   subCode |-> r.subCode, width |-> r.width, height |-> r.height, origin |-> Len(h) + 1]

ObjSubshapeCommand(font, data, index, state, h) ==
  ObjSub(handleSubshapeCommand(font, data, index,
                               [state EXCEPT !.currentPoint = h[state.currentPoint]]),
         state, h)

\* Opcodes 0, 2, 3, 4 and 14 touch no Point.
ObjSpecialCommand(font, command, data, index, state, h) ==
  CASE command = 1 -> ObjMoved(index, ObjEmit([state EXCEPT !.isPenDown = TRUE], h))
    [] command = 5 ->
         IF Len(state.sp) = StackDepth THEN ObjThrow(index, state, h, "Error")
         ELSE ObjOk(index, [state EXCEPT !.sp = Append(@, Len(h) + 1)],
                    Append(h, h[state.currentPoint]))
    [] command = 6 ->
         IF state.sp = <<>> THEN ObjOk(index, state, h)
         ELSE ObjOk(index, [state EXCEPT !.currentPoint = state.sp[Len(state.sp)],
                                         !.sp = SubSeq(@, 1, Len(@) - 1)], h)
    [] command = 7 -> ObjSubshapeCommand(font, data, index, state, h)
    [] command = 8 -> ObjXYDisplacement(data, index, state, h)
    [] command = 9 -> ObjMultipleXYDisplacements(data, index, state, h)
    [] command = 10 -> ObjOctantArc(data, index, state, h)
    [] command = 11 -> ObjFractionalArc(data, index, state, h)
    [] command = 12 -> ObjBulgeArc(data, index, state, h)
    [] command = 13 -> ObjMultipleBulgeArcs(data, index, state, h)
    [] OTHER -> ObjKeep(handleSpecialCommand(font, command, data, index, state), h)

\* One pass of the body of parseShape's for loop, at index i.
ObjCommand(font, data, i, state, h) ==
  IF data[i + 1] <= 15 THEN ObjSpecialCommand(font, data[i + 1], data, i, state, h)
  ELSE ObjMoved(i, ObjVectorCommand(data[i + 1], state, h))

\* The points before polyline j in the polylines.
RECURSIVE LenBefore(_, _)
LenBefore(polylines, j) ==
  IF j = 1 THEN 0 ELSE LenBefore(polylines, j - 1) + Len(polylines[j - 1])

\* Polylines of new Points: the ids, in order from base + 1.
NewPolylines(polylines, base) ==
  [j \in 1..Len(polylines) |->
     [k \in 1..Len(polylines[j]) |-> base + LenBefore(polylines, j) + k]]

\* A shape made of new Points throughout (clone() of each point of another
\* shape, then moved or scaled): the shape of ids and the heap.
NewShape(h, shape) ==
  [shape |-> ShxShape(Len(h) + 1, NewPolylines(shape.polylines, Len(h) + 1)),
   heap |-> Append(h, shape.lastPoint) \o Flatten(shape.polylines)]

\* point.add(p) for each id in turn.
RECURSIVE AddEach(_, _, _)
AddEach(h, ids, p) ==
  IF ids = <<>> THEN h
  ELSE AddEach([h EXCEPT ![Head(ids)] = PointAdd(@, p)], Tail(ids), p)

\* shape.offset(p, false): lastPoint and each point of each polyline is
\* moved in place.
OffsetInPlace(h, shape, p) == AddEach(h, <<shape.lastPoint>> \o Flatten(shape.polylines), p)

\* shape.normalizeToOrigin(): in place.
NormalizeInPlace(h, shape) == OffsetInPlace(h, shape, MinusMin(bbox(Deref(h, shape))))

\* ShxFont.getCharShape passes on what scaleShapeByFactor made, moved in
\* place for a Bigfont.
ObjFacade(font, made) ==
  IF font.fontType = BIGFONT
  THEN [shape |-> made.shape, heap |-> NormalizeInPlace(made.heap, made.shape)]
  ELSE made

ObjReturnedShape(code, size, made, fromCache) ==
  /\ outcome' = [Outcome("shape", code, size, made.shape, made.shape, "")
                 EXCEPT !.fromCache = fromCache]
  /\ heap' = made.heap

\* A variant that returns the base shape itself when the factor is 1.
ObjReturnedUncloned(code, size, baseShape, h, fromCache) ==
  ObjReturnedShape(code, size,
                   ObjFacade(fontData,
                             IF ScaleFactor(fontData, size) = One
                             THEN [shape |-> baseShape, heap |-> h]
                             ELSE NewShape(h, ParserShape(fontData, Deref(h, baseShape),
                                                          size))),
                   fromCache)

\* getCharShape returns for the base shape of ids: scaleShapeByFactor makes
\* the shape of clones, each multiplied by the factor.
ObjReturned(code, size, baseShape, h, fromCache) ==
  ObjReturnedShape(code, size,
                   ObjFacade(fontData,
                             NewShape(h, ParserShape(fontData, Deref(h, baseShape), size))),
                   fromCache)

\* A parseShape call that begins: currentPoint = new Point() is object id.
ObjFrame(code, data, id) ==
  [code |-> code, data |-> data, i |-> 0,
   state |-> [NewState EXCEPT !.currentPoint = id],
   width |-> Zero, height |-> Zero, origin |-> 0]

\* What the operations on objects leave alone.
ghosts == <<parses, completed, results, overflowed, buffer, loaded, arc>>

\* ShxFont.getCharShape(code, size) up to the first parseShape call.
ObjGetCharShape(code, size) ==
  /\ Idle
  /\ nCalls < ObjMaxCalls
  /\ nCalls' = nCalls + 1
  /\ UNCHANGED <<ghosts, fontData, shapeCache, shapeData>>
  /\ CASE Lookup(code) = "cached" ->
            /\ ObjReturned(code, size, shapeCache[code], heap, TRUE)
            /\ UNCHANGED <<frames, request>>
       [] Lookup(code) = "parse" ->
            /\ frames' = <<ObjFrame(code, fontData.data[code], Len(heap) + 1)>>
            /\ heap' = Append(heap, Origin)
            /\ request' = [code |-> code, size |-> size, cacheBefore |-> shapeCache]
            /\ UNCHANGED outcome
       [] OTHER ->
            /\ outcome' = Outcome("undefined", code, size, NoShape, NoShape, "")
            /\ UNCHANGED <<frames, request, heap>>

\* The exception leaves every parseShape call in progress and getCharShape.
ObjRaise(error, h) ==
  /\ frames' = <<>>
  /\ outcome' = Outcome("threw", request.code, request.size, NoShape, NoShape, error)
  /\ request' = NoRequest
  /\ heap' = h
  /\ UNCHANGED <<ghosts, fontData, shapeCache, shapeData, nCalls>>

\* The sub-glyph is drawn in frame f, the innermost of n: made is the shape
\* getScaledSubshapeAtInsertPoint returns, of new Points.
ObjSpliced(f, n, r, made) ==
  /\ frames' = [frames EXCEPT ![n] = AfterSubshape(f, r, made.shape.polylines)]
  /\ heap' = made.heap
  /\ UNCHANGED <<ghosts, fontData, shapeCache, shapeData, request, outcome, nCalls>>

\* getScaledSubshapeAtInsertPoint for the operands r of opcode 7.
ObjSubshape(f, n, r) ==
  IF r.subCode # 0 /\ r.subCode \in DOMAIN shapeCache
  THEN ObjSpliced(f, n, r,
                  NewShape(r.heap,
                           ScaledSubshapeAt(Deref(r.heap, shapeCache[r.subCode]), r.width,
                                            r.height, r.heap[r.origin])))
  ELSE IF r.subCode # 0 /\ HasData(fontData, r.subCode)
  THEN IF n = CallStackLimit
       THEN ObjRaise("RangeError", r.heap)
       ELSE /\ frames' = Append(
                 [frames EXCEPT ![n] = [f EXCEPT !.i = r.i, !.state = r.state,
                                                 !.width = r.width,
                                                 !.height = r.height,
                                                 !.origin = r.origin]],
                 ObjFrame(r.subCode, fontData.data[r.subCode], Len(r.heap) + 1))
            /\ heap' = Append(r.heap, Origin)
            /\ UNCHANGED <<ghosts, fontData, shapeCache, shapeData, request, outcome, nCalls>>
  ELSE /\ frames' = [frames EXCEPT ![n] = AfterSubshape(f, r, <<>>)]
       /\ heap' = r.heap
       /\ UNCHANGED <<ghosts, fontData, shapeCache, shapeData, request, outcome, nCalls>>

ObjContinue(f, n, r) ==
  CASE r.kind = "ok" ->
         /\ frames' = [frames EXCEPT ![n] = [f EXCEPT !.i = r.i + 1, !.state = r.state]]
         /\ heap' = r.heap
         /\ UNCHANGED <<ghosts, fontData, shapeCache, shapeData, request, outcome, nCalls>>
    [] r.kind = "throw" -> ObjRaise(r.error, r.heap)
    [] r.kind = "hang" ->
         /\ outcome' = Outcome("hang", request.code, request.size, NoShape, NoShape, "")
         /\ UNCHANGED <<ghosts, fontData, shapeCache, shapeData, frames, request, nCalls, heap>>
    [] OTHER -> ObjSubshape(f, n, r)

\* One pass of the loop of the innermost parseShape call.
ObjStep ==
  /\ frames # <<>>
  /\ outcome.kind # "hang"
  /\ Top.i < Len(Top.data)
  /\ ObjContinue(Top, Len(frames), ObjCommand(fontData, Top.data, Top.i, Top.state, heap))

\* The parent's frame with the sub-glyph's shape drawn.
ObjReturnedSub(n, parent, made) ==
  /\ frames' = [SubSeq(frames, 1, n) EXCEPT ![n] =
                  AfterSubshape(parent, parent, made.shape.polylines)]
  /\ heap' = made.heap

\* parseShape returns to getScaledSubshapeAtInsertPoint: the shape cached
\* is new ShxShape(state.currentPoint, state.polylines), of the objects the
\* interpretation made.
ObjReturnSub ==
  /\ Finished
  /\ Len(frames) > 1
  /\ shapeData' = CacheSet(shapeData, Top.code, ParsedShape(Top))
  /\ shapeCache' = CacheSet(shapeCache, Top.code, ParsedShape(Top))
  /\ ObjReturnedSub(Len(frames) - 1, frames[Len(frames) - 1],
                    NewShape(heap,
                             ScaledSubshapeAt(Deref(heap, ParsedShape(Top)),
                                              frames[Len(frames) - 1].width,
                                              frames[Len(frames) - 1].height,
                                              heap[frames[Len(frames) - 1].origin])))
  /\ UNCHANGED <<ghosts, fontData, request, outcome, nCalls>>

\* parseShape returns to parseAndScale.
ObjReturnTop ==
  /\ Finished
  /\ Len(frames) = 1
  /\ shapeData' = CacheSet(shapeData, Top.code, ParsedShape(Top))
  /\ shapeCache' = CacheSet(shapeCache, Top.code, ParsedShape(Top))
  /\ ObjReturned(request.code, request.size, ParsedShape(Top), heap, FALSE)
  /\ frames' = <<>>
  /\ request' = NoRequest
  /\ UNCHANGED <<ghosts, fontData, nCalls>>

\* ShxFont.release()
ObjRelease ==
  /\ Idle
  /\ shapeCache' = EmptyMap
  /\ shapeData' = EmptyMap
  /\ outcome' = Outcome("released", 0, 0, NoShape, NoShape, "")
  /\ UNCHANGED <<ghosts, fontData, frames, request, nCalls, heap>>

\* The caller moves the shape it was returned: shape.offset(p, false) with
\* p = (1, 1).
ObjOffset ==
  /\ Idle
  /\ outcome.kind = "shape"
  /\ heap' = OffsetInPlace(heap, outcome.shape, Point(One, One))
  /\ outcome' = [outcome EXCEPT !.kind = "offset"]
  /\ UNCHANGED <<ghosts, fontData, shapeCache, shapeData, frames, request, nCalls>>

ObjNext ==
  \/ \E code \in Codes, size \in Sizes : ObjGetCharShape(code, size)
  \/ ObjStep
  \/ ObjReturnSub
  \/ ObjReturnTop
  \/ ObjRelease
  \/ ObjOffset

ObjSpec == Init /\ [][ObjNext]_vars

\* -------------------------------------------------------------------------
\* Construction from an ArrayBuffer: ShxFileReader, ShxHeaderParser and the
\* content parsers
\*
\* A buffer is a sequence of bytes and a position counts the bytes before
\* it; text is the sequence of its character codes.
\* -------------------------------------------------------------------------

\* The guard of each read: this.data.byteLength < this.position + length
\* throws.
CanRead(b, position, length) == Len(b) >= position + length

\* DataView.getUint16(position, littleEndian)
Uint16(b, position, littleEndian) ==
  IF littleEndian THEN b[position + 1] + 256 * b[position + 2]
  ELSE 256 * b[position + 1] + b[position + 2]

\* DataView.getInt16(position, true)
Int16(b, position) ==
  IF Uint16(b, position, TRUE) >= 32768 THEN Uint16(b, position, TRUE) - 65536
  ELSE Uint16(b, position, TRUE)

\* DataView.getUint32(position, true).  A value of 2^30 or more is past the
\* end of every buffer and is kept as 2^30.
Uint32(b, position) ==
  IF b[position + 4] >= 64 THEN 1073741824
  ELSE Uint16(b, position, TRUE) + 65536 * Uint16(b, position + 2, TRUE)

\* DataView.getInt32(position, true).  A count of 2^30 or more is more than
\* the records of any buffer and is kept as 2^30.
Int32(b, position) ==
  IF b[position + 4] >= 128
  THEN Uint16(b, position, TRUE) + 65536 * (Uint16(b, position + 2, TRUE) - 65536)
  ELSE Uint32(b, position)

\* const maxHeaderLength = 1024
MaxHeaderLength == 1024

\* The loop of parseHeader: the text before the bytes 0x0d 0x0a 0x1a, and
\* the position the reader is left at.
RECURSIVE parseHeader(_, _, _, _)
parseHeader(b, position, result, headerLength) ==
  IF position < Len(b) - 2 /\ headerLength < MaxHeaderLength
  THEN IF b[position + 1] = 13 /\ b[position + 2] = 10 /\ b[position + 3] = 26
       THEN [text |-> result, position |-> position + 3]
       ELSE parseHeader(b, position + 1, Append(result, b[position + 1]), headerLength + 1)
  ELSE [text |-> result, position |-> position]

\* The characters String.prototype.trim strips, among those a byte makes.
IsSpace(c) == c \in {9, 10, 11, 12, 13, 32, 160}

\* result.trim()
RECURSIVE Trim(_)
Trim(text) ==
  IF text = <<>> THEN <<>>
  ELSE IF IsSpace(Head(text)) THEN Trim(Tail(text))
  ELSE IF IsSpace(text[Len(text)]) THEN Trim(SubSeq(text, 1, Len(text) - 1))
  ELSE text

\* headerData.split(' ')
RECURSIVE Split(_)
Split(text) ==
  IF \A k \in 1..Len(text) : text[k] # 32 THEN <<text>>
  ELSE LET k == CHOOSE k \in 1..Len(text) :
                   text[k] = 32 /\ \A j \in 1..(k - 1) : text[j] # 32
       IN  <<SubSeq(text, 1, k - 1)>> \o Split(SubSeq(text, k + 1, Len(text)))

\* toLocaleLowerCase(), for the letters A to Z.
ToLower(text) ==
  [k \in 1..Len(text) |-> IF text[k] \in 65..90 THEN text[k] + 32 ELSE text[k]]

\* A variant that tells the font type without lower-casing.
FontTypeExact(headers) ==
  CASE headers[2] = <<115, 104, 97, 112, 101, 115>> -> SHAPES
    [] headers[2] = <<98, 105, 103, 102, 111, 110, 116>> -> BIGFONT
    [] headers[2] = <<117, 110, 105, 102, 111, 110, 116>> -> UNIFONT
    [] OTHER -> "invalid"

\* headers[1].toLocaleLowerCase() as a value of ShxFontType ('shapes',
\* 'bigfont', 'unifont'), or "invalid".
FontTypeOf(headers) ==
  CASE ToLower(headers[2]) = <<115, 104, 97, 112, 101, 115>> -> SHAPES
    [] ToLower(headers[2]) = <<98, 105, 103, 102, 111, 110, 116>> -> BIGFONT
    [] ToLower(headers[2]) = <<117, 110, 105, 102, 111, 110, 116>> -> UNIFONT
    [] OTHER -> "invalid"

\* headers[2] where the header has two tokens: undefined.
NoToken == <<Undef>>

\* ShxHeaderParser.parse once the header is split: without a second token
\* headers[1].toLocaleLowerCase() throws a TypeError, and a second token
\* that names no font type throws an Error.
HeaderOf(headers, position) ==
  IF Len(headers) < 2 \/ FontTypeOf(headers) = "invalid"
  THEN [threw |-> TRUE, fontType |-> "invalid", fileHeader |-> <<>>,
        fileVersion |-> <<>>, position |-> position]
  ELSE [threw |-> FALSE, fontType |-> FontTypeOf(headers), fileHeader |-> headers[1],
        fileVersion |-> IF Len(headers) >= 3 THEN headers[3] ELSE NoToken,
        position |-> position]

HeaderParse(b) ==
  HeaderOf(Split(Trim(parseHeader(b, 0, <<>>, 0).text)), parseHeader(b, 0, <<>>, 0).position)

\* A read at a position does not throw: the reader's guard, and the
\* RangeError of DataView and Uint8Array for a negative position or length.
Readable(b, position, length) ==
  position >= 0 /\ length >= 0 /\ CanRead(b, position, length)

\* 'Failed to parse font file'
FailedInfo == <<70, 97, 105, 108, 101, 100, 32, 116, 111, 32, 112, 97, 114, 115, 101, 32, 102, 111, 110, 116, 32, 102, 105, 108, 101>>

\* What the catch block of each content parser returns.
FailureRecord ==
  [failed |-> TRUE, data |-> EmptyMap, info |-> FailedInfo, baseUp |-> 8, baseDown |-> 2,
   orientation |-> "horizontal", isExtended |-> FALSE]

\* The record each content parser fills: the defaults and the data.
ContentRecord(data) ==
  [failed |-> FALSE, data |-> data, info |-> <<>>, baseUp |-> 8, baseDown |-> 2,
   orientation |-> "horizontal", isExtended |-> FALSE]

\* bytes.indexOf(0x00)
IndexOfNul(bytes) ==
  IF \A k \in 1..Len(bytes) : bytes[k] # 0 THEN 0 - 1
  ELSE (CHOOSE k \in 1..Len(bytes) : bytes[k] = 0 /\ \A j \in 1..(k - 1) : bytes[j] # 0) - 1

\* bytes.subarray(startOfBytecode): what follows the label and its NUL.
StripLabel(bytes) == SubSeq(bytes, IndexOfNul(bytes) + 2, Len(bytes))

\* A variant that stores the payload with its label.
WithLabel(data, code, bytes) == CacheSet(data, code, bytes)

\* data[code] = bytes.subarray(startOfBytecode), made only if bytecode
\* follows the label.
WithBytecode(data, code, bytes) ==
  IF IndexOfNul(bytes) + 1 < Len(bytes) THEN CacheSet(data, code, StripLabel(bytes))
  ELSE data

\* The info block of a Shapes font or a Unifont: the text before the NUL at
\* index and, if three bytes follow it, baseUp, baseDown and
\* the orientation.  (The bytes of the text are below 128, for which the
\* index in the decoded text is the index in the bytes.)
WithInfoAt(content, infoData, index) ==
  IF index < 0 THEN content
  ELSE IF index + 3 < Len(infoData)
  THEN [content EXCEPT !.info = SubSeq(infoData, 1, index),
                       !.baseUp = infoData[index + 2],
                       !.baseDown = infoData[index + 3],
                       !.orientation = IF infoData[index + 4] = 0 THEN "horizontal"
                                       ELSE "vertical"]
  ELSE [content EXCEPT !.info = SubSeq(infoData, 1, index)]

\* ShxBigfontContentParser.utf8ArrayToStr from index i on: the character
\* codes of the text.  A byte below 128 is a character, a byte from 192 to
\* 223 takes the next byte along and one from 224 to 239 the next two; every
\* other byte gives no character.
RECURSIVE utf8ArrayToStr(_, _)
utf8ArrayToStr(array, i) ==
  IF i >= Len(array) THEN <<>>
  ELSE LET c == array[i + 1]
           char2 == ByteBits(DataAt(array, i + 1))
           char3 == ByteBits(DataAt(array, i + 2))
       IN  CASE c \div 16 <= 7 -> <<c>> \o utf8ArrayToStr(array, i + 1)
             [] c \div 16 \in {12, 13} ->
                  <<(c % 32) * 64 + (char2 % 64)>> \o utf8ArrayToStr(array, i + 2)
             [] c \div 16 = 14 ->
                  <<(c % 16) * 4096 + (char2 % 64) * 64 + (char3 % 64)>>
                  \o utf8ArrayToStr(array, i + 3)
             [] OTHER -> utf8ArrayToStr(array, i + 1)

\* The info block of a Bigfont, index being one more than that of the NUL in the
\* decoded text, which the code takes for an index into the bytes:
\* four bytes after the NUL are baseUp, baseDown, orientation and one more;
\* any other number is the layout of an extended Bigfont.
WithBigfontInfoAt(content, infoData, index) ==
  IF index < 1 THEN content
  ELSE IF index + 3 < Len(infoData)
  THEN IF Len(infoData) - index = 4
       THEN [content EXCEPT !.info = SubSeq(utf8ArrayToStr(infoData, 0), 1, index - 1),
                            !.baseUp = infoData[index + 1],
                            !.baseDown = infoData[index + 2],
                            !.orientation = IF infoData[index + 3] = 0 THEN "horizontal"
                                            ELSE "vertical"]
       ELSE [content EXCEPT !.info = SubSeq(utf8ArrayToStr(infoData, 0), 1, index - 1),
                            !.baseUp = infoData[index + 1],
                            !.orientation = IF infoData[index + 3] = 0 THEN "horizontal"
                                            ELSE "vertical",
                            !.baseDown = infoData[index + 4],
                            !.isExtended = TRUE]
  ELSE [content EXCEPT !.info = SubSeq(utf8ArrayToStr(infoData, 0), 1, index - 1)]

\* ShxShapeContentParser: the descriptors of the table at position, those
\* of length 0 left out.
RECURSIVE ShapeItems(_, _, _)
ShapeItems(b, position, count) ==
  IF count = 0 THEN <<>>
  ELSE (IF Uint16(b, position + 2, TRUE) > 0
        THEN <<[code |-> Uint16(b, position, TRUE), length |-> Uint16(b, position + 2, TRUE)]>>
        ELSE <<>>)
       \o ShapeItems(b, position + 4, count - 1)

\* The loop over the items: readBytes(item.length) at the reader's
\* position; a read that throws is caught and leaves the position.
RECURSIVE ShapePayloads(_, _, _, _)
ShapePayloads(b, items, position, data) ==
  IF items = <<>> THEN data
  ELSE IF ~Readable(b, position, Head(items).length)
  THEN ShapePayloads(b, Tail(items), position, data)
  ELSE ShapePayloads(b, Tail(items), position + Head(items).length,
                     WithBytecode(data, Head(items).code,
                                  SubSeq(b, position + 1, position + Head(items).length)))

\* The font info, read if the data has code 0.
ShapeContent(data) ==
  IF 0 \in DOMAIN data THEN WithInfoAt(ContentRecord(data), data[0], IndexOfNul(data[0]))
  ELSE ContentRecord(data)

\* A variant that goes on with whatever count the file gives.
ShapeContentParseAnyCount(b, position) ==
  IF ~Readable(b, position, 6) THEN FailureRecord
  ELSE IF ~Readable(b, position + 6, 4 * Int16(b, position + 4))
  THEN ShapeContent(EmptyMap)
  ELSE ShapeContent(ShapePayloads(b, ShapeItems(b, position + 6, Int16(b, position + 4)),
                                  position + 6 + 4 * Int16(b, position + 4), EmptyMap))

\* ShxShapeContentParser.parse with the reader at position.
ShapeContentParse(b, position) ==
  IF ~Readable(b, position, 6) THEN FailureRecord
  ELSE IF Int16(b, position + 4) <= 0 THEN FailureRecord
  ELSE IF ~Readable(b, position + 6, 4 * Int16(b, position + 4)) THEN FailureRecord
  ELSE ShapeContent(ShapePayloads(b, ShapeItems(b, position + 6, Int16(b, position + 4)),
                                  position + 6 + 4 * Int16(b, position + 4), EmptyMap))

\* ShxBigfontContentParser: the descriptors of the table at position (the
\* code big-endian, the length and the offset little-endian), those with
\* all three zero left out.
RECURSIVE BigfontItems(_, _, _)
BigfontItems(b, position, count) ==
  IF count = 0 THEN <<>>
  ELSE (IF Uint16(b, position, FALSE) # 0 \/ Uint16(b, position + 2, TRUE) # 0
           \/ Uint32(b, position + 4) # 0
        THEN <<[code |-> Uint16(b, position, FALSE), length |-> Uint16(b, position + 2, TRUE),
                offset |-> Uint32(b, position + 4)]>>
        ELSE <<>>)
       \o BigfontItems(b, position + 8, count - 1)

\* The loop over the items: setPosition(item.offset), then
\* readBytes(item.length); either may throw, which is caught.
RECURSIVE BigfontPayloads(_, _, _)
BigfontPayloads(b, items, data) ==
  IF items = <<>> THEN data
  ELSE IF ~Readable(b, Head(items).offset, Head(items).length)
  THEN BigfontPayloads(b, Tail(items), data)
  ELSE BigfontPayloads(b, Tail(items),
                       CacheSet(data, Head(items).code,
                                SubSeq(b, Head(items).offset + 1,
                                       Head(items).offset + Head(items).length)))

\* The font info, read if the data has code 0.
BigfontContent(data) ==
  IF 0 \in DOMAIN data
  THEN WithBigfontInfoAt(ContentRecord(data), data[0],
                         IndexOfNul(utf8ArrayToStr(data[0], 0)) + 1)
  ELSE ContentRecord(data)

\* The table of a Bigfont after skip(changeNumber * 4): skip throws past
\* the end of the buffer, and a read before its start throws.
BigfontTableParse(b, position, count) ==
  IF ~(position <= Len(b)) THEN FailureRecord
  ELSE IF ~Readable(b, position, 8 * count) THEN FailureRecord
  ELSE BigfontContent(BigfontPayloads(b, BigfontItems(b, position, count), EmptyMap))

\* ShxBigfontContentParser.parse with the reader at position.
BigfontContentParse(b, position) ==
  IF ~Readable(b, position, 6) THEN FailureRecord
  ELSE IF Int16(b, position + 2) <= 0 THEN FailureRecord
  ELSE BigfontTableParse(b, position + 6 + 4 * Int16(b, position + 4), Int16(b, position + 2))

\* ShxUnifontContentParser: the loop over count - 1 records, each a code, a
\* length and, if the length is positive, that many bytes; a read that
\* throws ends the loop.
RECURSIVE UnifontRecords(_, _, _, _)
UnifontRecords(b, count, position, data) ==
  IF count <= 0 THEN data
  ELSE IF ~Readable(b, position, 4) THEN data
  ELSE IF Uint16(b, position + 2, TRUE) = 0 THEN UnifontRecords(b, count - 1, position + 4, data)
  ELSE IF ~Readable(b, position + 4, Uint16(b, position + 2, TRUE)) THEN data
  ELSE UnifontRecords(b, count - 1, position + 4 + Uint16(b, position + 2, TRUE),
                      WithBytecode(data, Uint16(b, position, TRUE),
                                   SubSeq(b, position + 5,
                                          position + 4 + Uint16(b, position + 2, TRUE))))

\* The info block of infoLength bytes at position, then the records.
UnifontInfoParse(b, position, count, infoLength) ==
  IF ~Readable(b, position, infoLength) THEN FailureRecord
  ELSE WithInfoAt(ContentRecord(UnifontRecords(b, count - 1, position + infoLength, EmptyMap)),
                  SubSeq(b, position + 1, position + infoLength),
                  IndexOfNul(SubSeq(b, position + 1, position + infoLength)))

\* A variant that reads as many records as the count says.
UnifontContentParseCountRecords(b, position) ==
  IF ~Readable(b, position, 4) THEN FailureRecord
  ELSE IF Int32(b, position) <= 0 THEN FailureRecord
  ELSE IF ~Readable(b, position + 4, 2) THEN FailureRecord
  ELSE UnifontInfoParse(b, position + 6, Int32(b, position) + 1, Int16(b, position + 4))

\* ShxUnifontContentParser.parse with the reader at position.
UnifontContentParse(b, position) ==
  IF ~Readable(b, position, 4) THEN FailureRecord
  ELSE IF Int32(b, position) <= 0 THEN FailureRecord
  ELSE IF ~Readable(b, position + 4, 2) THEN FailureRecord
  ELSE UnifontInfoParse(b, position + 6, Int32(b, position), Int16(b, position + 4))

\* ShxContentParserFactory.createParser(fontType).parse(reader)
ContentParse(fontType, b, position) ==
  CASE fontType = SHAPES -> ShapeContentParse(b, position)
    [] fontType = BIGFONT -> BigfontContentParse(b, position)
    [] fontType = UNIFONT -> UnifontContentParse(b, position)

\* The buffers construction is tried on: each a header, the bytes 13 10 26
\* and a content section.
Files ==
  \* "A shapes 1": info at code 0, glyph 1, glyph 2 drawing glyph 1
  { <<65, 32, 115, 104, 97, 112, 101, 115, 32, 49, 13, 10, 26, 1, 0, 3, 0, 3, 0, 0, 0,
      6, 0, 1, 0, 6, 0, 2, 0, 6, 0, 0, 73, 0, 6, 2, 0, 97, 0, 1, 36, 2, 0, 0, 1, 32, 7,
      1, 0>>
  \* "A SHAPES 1"
  , <<65, 32, 83, 72, 65, 80, 69, 83, 32, 49, 13, 10, 26, 1, 0, 3, 0, 3, 0, 0, 0, 6, 0,
      1, 0, 6, 0, 2, 0, 6, 0, 0, 73, 0, 6, 2, 0, 97, 0, 1, 36, 2, 0, 0, 1, 32, 7, 1, 0>>
  \* " A Shapes 1 ", trimmed
  , <<32, 65, 32, 83, 104, 97, 112, 101, 115, 32, 49, 32, 13, 10, 26, 1, 0, 3, 0, 3, 0,
      0, 0, 6, 0, 1, 0, 6, 0, 2, 0, 6, 0, 0, 73, 0, 6, 2, 0, 97, 0, 1, 36, 2, 0, 0, 1,
      32, 7, 1, 0>>
  \* "A shape 1": no font type
  , <<65, 32, 115, 104, 97, 112, 101, 32, 49, 13, 10, 26, 1, 0, 3, 0, 3, 0, 0, 0, 6, 0,
      1, 0, 6, 0, 2, 0, 6, 0, 0, 73, 0, 6, 2, 0, 97, 0, 1, 36, 2, 0, 0, 1, 32, 7, 1, 0>>
  \* "shapes A 1": the type in the first token
  , <<115, 104, 97, 112, 101, 115, 32, 65, 32, 49, 13, 10, 26, 1, 0, 3, 0, 3, 0, 0, 0,
      6, 0, 1, 0, 6, 0, 2, 0, 6, 0, 0, 73, 0, 6, 2, 0, 97, 0, 1, 36, 2, 0, 0, 1, 32, 7,
      1, 0>>
  \* "A": one token
  , <<65, 13, 10, 26, 1, 0, 3, 0, 3, 0, 0, 0, 6, 0, 1, 0, 6, 0, 2, 0, 6, 0, 0, 73, 0,
      6, 2, 0, 97, 0, 1, 36, 2, 0, 0, 1, 32, 7, 1, 0>>
  \* "A  shapes 1": an empty second token
  , <<65, 32, 32, 115, 104, 97, 112, 101, 115, 32, 49, 13, 10, 26, 1, 0, 3, 0, 3, 0, 0,
      0, 6, 0, 1, 0, 6, 0, 2, 0, 6, 0, 0, 73, 0, 6, 2, 0, 97, 0, 1, 36, 2, 0, 0, 1, 32,
      7, 1, 0>>
  \* "A shapes": no version
  , <<65, 32, 115, 104, 97, 112, 101, 115, 13, 10, 26, 1, 0, 3, 0, 3, 0, 0, 0, 6, 0, 1,
      0, 6, 0, 2, 0, 6, 0, 0, 73, 0, 6, 2, 0, 97, 0, 1, 36, 2, 0, 0, 1, 32, 7, 1, 0>>
  \* "A shapes 1zz": no end of header, so the header is all but two bytes
  , <<65, 32, 115, 104, 97, 112, 101, 115, 32, 49, 122, 122>>
  \* the empty buffer
  , <<>>
  \* "A bigfont 1": one change, info at code 0, glyphs 1 and 2
  , <<65, 32, 98, 105, 103, 102, 111, 110, 116, 32, 49, 13, 10, 26, 8, 0, 3, 0, 1, 0,
      0, 0, 0, 0, 0, 0, 6, 0, 48, 0, 0, 0, 0, 1, 4, 0, 54, 0, 0, 0, 0, 2, 5, 0, 58, 0,
      0, 0, 66, 0, 6, 2, 0, 0, 1, 36, 2, 0, 1, 32, 7, 1, 0>>
  \* "A BigFont 1": the info block of an extended Bigfont
  , <<65, 32, 66, 105, 103, 70, 111, 110, 116, 32, 49, 13, 10, 26, 8, 0, 2, 0, 0, 0, 0,
      0, 7, 0, 36, 0, 0, 0, 0, 1, 4, 0, 43, 0, 0, 0, 66, 0, 6, 0, 0, 2, 0, 1, 36, 2, 0>>
  \* "A bigfont 1": three bytes follow the NUL of the info text
  , <<65, 32, 98, 105, 103, 102, 111, 110, 116, 32, 49, 13, 10, 26, 8, 0, 2, 0, 0, 0,
      0, 0, 5, 0, 36, 0, 0, 0, 0, 1, 4, 0, 41, 0, 0, 0, 66, 0, 6, 2, 0, 1, 36, 2, 0>>
  \* "A bigfont 1": the info text is the two bytes of U+00E9, four bytes follow its NUL
  , <<65, 32, 98, 105, 103, 102, 111, 110, 116, 32, 49, 13, 10, 26, 8, 0, 2, 0, 0, 0,
      0, 0, 7, 0, 36, 0, 0, 0, 0, 1, 4, 0, 43, 0, 0, 0, 195, 169, 0, 6, 2, 1, 0, 1, 36,
      2, 0>>
  \* "A bigfont 1": glyph 1 a stroke, glyph 2 a space that moves the pen by (4, 0) with
  \* the pen up
  , <<65, 32, 98, 105, 103, 102, 111, 110, 116, 32, 49, 13, 10, 26, 8, 0, 3, 0, 0, 0,
      0, 0, 7, 0, 44, 0, 0, 0, 0, 1, 4, 0, 51, 0, 0, 0, 0, 2, 5, 0, 55, 0, 0, 0, 66, 0,
      6, 0, 0, 2, 0, 1, 36, 2, 0, 2, 8, 4, 0, 0>>
  \* "A unifont 1": info, glyph 1, glyph 2 drawing glyph 1
  , <<65, 32, 117, 110, 105, 102, 111, 110, 116, 32, 49, 13, 10, 26, 3, 0, 0, 0, 5, 0,
      85, 0, 6, 2, 0, 1, 0, 6, 0, 97, 0, 1, 36, 2, 0, 2, 0, 6, 0, 0, 1, 32, 7, 0, 1>>
  \* Shapes: glyph 1 a stroke; glyph 2 pushes and pops the pen position, once more than
  \* it pushed; glyph 3 closes a polyline of one point, enters glyph 1 with another and
  \* names the absent code 4 and code 0 as sub-glyphs
  , <<65, 32, 115, 104, 97, 112, 101, 115, 32, 49, 13, 10, 26, 1, 0, 3, 0, 3, 0, 1, 0,
      6, 0, 2, 0, 13, 0, 3, 0, 16, 0, 97, 0, 1, 36, 2, 0, 0, 5, 1, 36, 5, 32, 6, 44, 6,
      32, 6, 2, 0, 0, 1, 2, 1, 7, 1, 1, 36, 2, 7, 4, 7, 0, 1, 32, 2>>
  \* Shapes: glyph 2 draws after dividing the scale by 0; glyph 3 enters glyph 2, divides
  \* the scale by 0 and enters glyph 1
  , <<65, 32, 115, 104, 97, 112, 101, 115, 32, 49, 13, 10, 26, 1, 0, 3, 0, 3, 0, 1, 0,
      6, 0, 2, 0, 7, 0, 3, 0, 8, 0, 97, 0, 1, 36, 2, 0, 0, 3, 0, 1, 32, 2, 0, 0, 7, 2,
      3, 0, 7, 1, 0>>
  \* Shapes: the payload of code 0 is the text "I", a NUL, baseUp 6, baseDown 2 and
  \* orientation 0
  , <<65, 32, 115, 104, 97, 112, 101, 115, 32, 49, 13, 10, 26, 1, 0, 3, 0, 3, 0, 0, 0,
      5, 0, 1, 0, 6, 0, 2, 0, 6, 0, 73, 0, 6, 2, 0, 97, 0, 1, 36, 2, 0, 0, 1, 32, 7, 1,
      0>>
  \* Shapes: glyph 1 draws a fractional arc of four octants whose radius bytes are 1 and 0
  , <<65, 32, 115, 104, 97, 112, 101, 115, 32, 49, 13, 10, 26, 1, 0, 3, 0, 1, 0, 1, 0,
      10, 0, 0, 1, 11, 0, 0, 1, 0, 4, 2, 0>>
  \* Shapes with count 0
  , <<65, 32, 115, 104, 97, 112, 101, 115, 32, 49, 13, 10, 26, 1, 0, 3, 0, 0, 0>>
  \* Shapes with count -1
  , <<65, 32, 115, 104, 97, 112, 101, 115, 32, 49, 13, 10, 26, 1, 0, 3, 0, 255, 255, 1,
      0, 6, 0, 97, 0, 1, 36, 2, 0>>
  \* Shapes with a table of two descriptors cut after the first
  , <<65, 32, 115, 104, 97, 112, 101, 115, 32, 49, 13, 10, 26, 1, 0, 3, 0, 2, 0, 1, 0,
      6, 0>>
  \* Shapes cut before the count
  , <<65, 32, 115, 104, 97, 112, 101, 115, 32, 49, 13, 10, 26, 1, 0, 3>>
  \* Shapes: record 1 of 5 bytes, record 2 of 2 bytes, 3 bytes of payload
  , <<65, 32, 115, 104, 97, 112, 101, 115, 32, 49, 13, 10, 26, 1, 0, 3, 0, 2, 0, 1, 0,
      5, 0, 2, 0, 2, 0, 0, 1, 36>>
  \* Shapes: record 1 of 2 bytes, record 2 of 5 bytes, 3 bytes of payload
  , <<65, 32, 115, 104, 97, 112, 101, 115, 32, 49, 13, 10, 26, 1, 0, 3, 0, 2, 0, 1, 0,
      2, 0, 2, 0, 5, 0, 0, 1, 36>>
  \* Shapes: record 1 a label alone, record 3 of length 0, record 2 a glyph
  , <<65, 32, 115, 104, 97, 112, 101, 115, 32, 49, 13, 10, 26, 1, 0, 3, 0, 3, 0, 1, 0,
      2, 0, 3, 0, 0, 0, 2, 0, 4, 0, 97, 0, 0, 1, 36, 0>>
  \* Bigfont with count 0
  , <<65, 32, 98, 105, 103, 102, 111, 110, 116, 32, 49, 13, 10, 26, 8, 0, 0, 0, 0, 0>>
  \* Bigfont with a table of two descriptors cut in the second
  , <<65, 32, 98, 105, 103, 102, 111, 110, 116, 32, 49, 13, 10, 26, 8, 0, 2, 0, 0, 0,
      0, 1, 4, 0, 40, 0, 0, 0, 0, 2>>
  \* Bigfont: the offset of record 1 past the end, record 2 inside
  , <<65, 32, 98, 105, 103, 102, 111, 110, 116, 32, 49, 13, 10, 26, 8, 0, 2, 0, 0, 0,
      0, 1, 4, 0, 200, 0, 0, 0, 0, 2, 4, 0, 36, 0, 0, 0, 1, 36, 2, 0>>
  \* Bigfont: a change table longer than the buffer
  , <<65, 32, 98, 105, 103, 102, 111, 110, 116, 32, 49, 13, 10, 26, 8, 0, 1, 0, 9, 0,
      0, 1, 4, 0, 40, 0, 0, 0>>
  \* "A unifont 1": glyph 2 has opcode 14 before opcode 7 with code 0x0001
  , <<65, 32, 117, 110, 105, 102, 111, 110, 116, 32, 49, 13, 10, 26, 3, 0, 0, 0, 5, 0,
      85, 0, 6, 2, 0, 1, 0, 6, 0, 97, 0, 1, 36, 2, 0, 2, 0, 9, 0, 0, 14, 7, 0, 1, 1,
      36, 2, 0>>
  \* "A unifont 1": glyph 2 names the absent code 0x0009 and the code 0 as sub-glyphs
  , <<65, 32, 117, 110, 105, 102, 111, 110, 116, 32, 49, 13, 10, 26, 3, 0, 0, 0, 5, 0,
      85, 0, 6, 2, 0, 1, 0, 6, 0, 97, 0, 1, 36, 2, 0, 2, 0, 13, 0, 0, 7, 0, 9, 1, 1,
      36, 7, 0, 0, 2, 2, 0>>
  \* Unifont: count 2 and the records of glyph 1 and glyph 2
  , <<65, 32, 117, 110, 105, 102, 111, 110, 116, 32, 49, 13, 10, 26, 2, 0, 0, 0, 5, 0,
      85, 0, 6, 2, 0, 1, 0, 6, 0, 97, 0, 1, 36, 2, 0, 2, 0, 5, 0, 0, 1, 32, 2, 0>>
  \* Unifont: the bytecode of glyph 2 ends after a vector drawn with the pen down
  , <<65, 32, 117, 110, 105, 102, 111, 110, 116, 32, 49, 13, 10, 26, 3, 0, 0, 0, 5, 0,
      85, 0, 6, 2, 0, 1, 0, 6, 0, 97, 0, 1, 36, 2, 0, 2, 0, 3, 0, 0, 1, 36>>
  \* Unifont with count 0
  , <<65, 32, 117, 110, 105, 102, 111, 110, 116, 32, 49, 13, 10, 26, 0, 0, 0, 0, 5, 0,
      85, 0, 6, 2, 0, 1, 0, 6, 0, 97, 0, 1, 36, 2, 0>>
  \* Unifont with an info block longer than the buffer
  , <<65, 32, 117, 110, 105, 102, 111, 110, 116, 32, 49, 13, 10, 26, 2, 0, 0, 0, 40, 0,
      85, 0, 6, 2, 0>>
  \* Unifont: glyph 1 inside, glyph 2 cut short
  , <<65, 32, 117, 110, 105, 102, 111, 110, 116, 32, 49, 13, 10, 26, 3, 0, 0, 0, 5, 0,
      85, 0, 6, 2, 0, 1, 0, 6, 0, 97, 0, 1, 36, 2, 0, 2, 0, 6, 0, 0, 1, 36>>
  \* Unifont: count 5 and one record
  , <<65, 32, 117, 110, 105, 102, 111, 110, 116, 32, 49, 13, 10, 26, 5, 0, 0, 0, 5, 0,
      85, 0, 6, 2, 0, 1, 0, 6, 0, 97, 0, 1, 36, 2, 0>>
  }

\* fontData before the constructor has assigned it.
NoFont == Font("none", FALSE, 0, EmptyMap)

\* this.fontData = {header, content}, the header and the content parsed.
ConstructedFrom(header, content) ==
  /\ fontData' = Font(header.fontType, content.isExtended, content.baseUp, content.data)
  /\ loaded' = Loaded("done", header.fileHeader, header.fileVersion, content)

\* The constructor once the header parser has returned or thrown: what the
\* header parser throws leaves the constructor.
ConstructWith(header) ==
  IF header.threw
  THEN /\ loaded' = Loaded("threw", <<>>, <<>>, ContentRecord(EmptyMap))
       /\ UNCHANGED fontData
  ELSE ConstructedFrom(header, ContentParse(header.fontType, buffer, header.position))

\* new ShxFont(data) for an ArrayBuffer.
Construct ==
  /\ loaded.status = "pending"
  /\ ConstructWith(HeaderParse(buffer))
  /\ UNCHANGED <<heap, arc, buffer, shapeCache, shapeData, frames, request, outcome, nCalls,
                 parses, completed, results, overflowed>>

LoadInit ==
  /\ buffer \in Files
  /\ loaded = Loaded("pending", <<>>, <<>>, ContentRecord(EmptyMap))
  /\ fontData = NoFont
  /\ shapeCache = EmptyMap
  /\ shapeData = EmptyMap
  /\ frames = <<>>
  /\ request = NoRequest
  /\ outcome = Outcome("none", 0, 0, NoShape, NoShape, "")
  /\ nCalls = 0
  /\ parses = [c \in Codes |-> 0]
  /\ completed = [c \in Codes |-> 0]
  /\ results = [k \in {} |-> NoShape]
  /\ overflowed = {}
  /\ heap = <<>>
  /\ arc = NoArc

LoadNext ==
  \/ Construct
  \/ \E code \in Codes, size \in Sizes : GetCharShape(code, size)
  \/ Step
  \/ ReturnSub
  \/ ReturnTop
  \/ Release

\* A font constructed from a buffer, then asked for shapes.
LoadSpec == LoadInit /\ [][LoadNext]_vars

\* -------------------------------------------------------------------------
\* An Arc on its own: built by fromBulge or fromOctant and tessellated, or
\* drawn by one of the opcodes 10, 12 and 13 with the pen down.  A bulge is
\* held as a whole number of 127ths, as handleArcSegment passes it.
\* -------------------------------------------------------------------------

\* Arc.fromBulge and the bulge branch of the constructor: the bulge kept is
\* Math.max(-1, Math.min(1, bulge)); H === 0, which makes the radius 0,
\* holds for bulge 0 and for a chord of length 0.  The centre and the angles
\* are computed when the arc is tessellated.
fromBulge(start, end, bulge) ==
  [start |-> start, end |-> end, hasEnd |-> TRUE,
   bulge |-> IF bulge < 0 THEN 0 - BulgeMagnitude(bulge) ELSE BulgeMagnitude(bulge),
   isClockwise |-> bulge < 0,
   radiusIsZero |-> bulge = 0 \/ PointSubtract(end, start) = Origin]

\* Arc.tessellate() with the default circleSpan.
tessellate(a) ==
  IF a.hasEnd THEN [threw |-> FALSE, points |-> BulgeArcPoints(a.start, a.end, a.bulge)]
  ELSE tessellateOctant(a)

ArcPoints == {Origin, Point(Int2Num(2), Zero), Point(One, Int2Num(3))}

\* Bulges in 127ths: within [-1, 1], at its ends and beyond them.
ArcBulges == {0 - 300, 0 - 128, 0 - 127, 0 - 64, 0, 64, 127, 128, 300}

ArcRadii == {Zero, One, Int2Num(2)}

\* Opcode 10 for the radius bytes 0..2, every start octant, the counts 0 and
\* 2 and both directions; opcode 12 and a run of opcode 13 for bulge bytes
\* on both sides of 0x80.
ArcGlyphs ==
  {<<10, r, 128 * cw + 16 * s + c>> : r \in 0..2, s \in 0..7, c \in {0, 2}, cw \in {0, 1}}
  \cup {<<12, 2, 0, b>> : b \in {0, 1, 64, 127, 128, 129, 192, 255}}
  \cup {<<13, 2, 254, b, 0, 0>> : b \in {64, 128, 129}}

ArcRequests ==
  [kind : {"bulge"}, start : ArcPoints, end : ArcPoints, bulge : ArcBulges]
  \cup [kind : {"octant"}, center : {Origin, Point(One, Int2Num(3))}, radius : ArcRadii,
        startOctant : 0..7, octantCount : 0..8, isClockwise : BOOLEAN]
  \cup [kind : {"opcode"}, data : ArcGlyphs, pen : {Origin, Point(One, Int2Num(3))}]

\* What an Arc on its own leaves alone.
noFont == <<fontData, shapeCache, shapeData, frames, request, outcome, nCalls,
            parses, completed, results, overflowed, heap, buffer, loaded>>

FromBulge ==
  /\ arc.stage = "request" /\ arc.req.kind = "bulge"
  /\ arc' = [stage |-> "built", req |-> arc.req,
             built |-> fromBulge(arc.req.start, arc.req.end, arc.req.bulge)]
  /\ UNCHANGED noFont

FromOctant ==
  /\ arc.stage = "request" /\ arc.req.kind = "octant"
  /\ arc' = [stage |-> "built", req |-> arc.req,
             built |-> fromOctant(arc.req.center, arc.req.radius, arc.req.startOctant,
                                  arc.req.octantCount, arc.req.isClockwise)]
  /\ UNCHANGED noFont

Tessellate ==
  /\ arc.stage = "built"
  /\ arc' = [stage |-> "done", req |-> arc.req, built |-> arc.built,
             out |-> tessellate(arc.built)]
  /\ UNCHANGED noFont

\* The state of a parseShape call whose pen is down at the given point.
PenDownAt(pen) ==
  [NewState EXCEPT !.currentPoint = pen, !.isPenDown = TRUE, !.currentPolyline = <<pen>>]

\* The handler of the opcode the data starts with.
ArcCommand(data, state) ==
  CASE data[1] = 10 -> handleOctantArc(data, 0, state)
    [] data[1] = 12 -> handleBulgeArc(data, 0, state)
    [] data[1] = 13 -> handleMultipleBulgeArcs(data, 0, state)

DrawArc ==
  /\ arc.stage = "request" /\ arc.req.kind = "opcode"
  /\ arc' = [stage |-> "done", req |-> arc.req,
             out |-> ArcCommand(arc.req.data, PenDownAt(arc.req.pen))]
  /\ UNCHANGED noFont

ArcInit ==
  /\ arc \in [stage : {"request"}, req : ArcRequests]
  /\ fontData = FontArcs
  /\ shapeCache = EmptyMap
  /\ shapeData = EmptyMap
  /\ frames = <<>>
  /\ request = NoRequest
  /\ outcome = Outcome("none", 0, 0, NoShape, NoShape, "")
  /\ nCalls = 0
  /\ parses = [c \in Codes |-> 0]
  /\ completed = [c \in Codes |-> 0]
  /\ results = [k \in {} |-> NoShape]
  /\ overflowed = {}
  /\ heap = <<>>
  /\ buffer = <<>>
  /\ loaded = Constructed

ArcNext ==
  \/ FromBulge
  \/ FromOctant
  \/ Tessellate
  \/ DrawArc

ArcSpec == ArcInit /\ [][ArcNext]_vars

\* -------------------------------------------------------------------------
\* Properties
\* -------------------------------------------------------------------------

\* C1 as stated: between construction and the next release() the bytecode
\* of each code is interpreted at most once, however it is reached.
C1_InterpretedAtMostOnce == \A c \in Codes : parses[c] <= 1

\* C1 amended: between construction and the next release() the
\* interpretation of each code completes at most once; a code has a cache
\* entry exactly when its interpretation has completed, and no code that
\* has a cache entry is interpreted: requests for it are served from the
\* cached unscaled shape.
C1_CompletedAtMostOnce ==
  /\ \A c \in Codes : completed[c] <= 1 /\ (completed[c] = 1 <=> c \in DOMAIN shapeCache)
  /\ \A k \in 1..Len(frames) : frames[k].code \notin DOMAIN shapeCache
  /\ outcome.kind = "shape" => completed[outcome.code] = 1

\* A code is served from the cache at a size not asked for before.
C1_ServedFromCache ==
  /\ outcome.kind = "shape"
  /\ outcome.fromCache
  /\ ~outcome.again
  /\ parses[outcome.code] = 1

\* C2: getCharShape(code, size) returns undefined for every size when code
\* is 0 or has no entry in the font's data, and the call leaves both caches
\* as they were.
C2_NoShapeForAbsentCode ==
  [][\A code \in Codes, size \in Sizes :
       ((code = 0 \/ code \notin DOMAIN fontData.data) /\ GetCharShape(code, size))
       => /\ outcome' = Outcome("undefined", code, size, NoShape, NoShape, "")
          /\ frames' = <<>>
          /\ shapeCache' = shapeCache
          /\ shapeData' = shapeData]_vars

\* Code 0 was asked for in a font whose data has an entry for code 0, with
\* a shape in the cache.
C2_ZeroCodeAsked ==
  /\ outcome.kind = "undefined"
  /\ outcome.code = 0
  /\ 0 \in DOMAIN fontData.data
  /\ shapeCache # EmptyMap
  /\ shapeData = shapeCache

\* C3: a getCharShape(code, size) call returns the shape that the first
\* getCharShape(code, size) call returned, whatever was called in between.
C3_SameArgumentsSameShape ==
  outcome.kind = "shape" => outcome.shape = results[<<outcome.code, outcome.size>>]

\* A shape is returned for a code and size asked for before, other
\* arguments having been asked for too.
C3_AskedAgain ==
  /\ outcome.kind = "shape"
  /\ outcome.again
  /\ outcome.shape.polylines # <<>>
  /\ \E k \in DOMAIN results : k # <<outcome.code, outcome.size>>

\* C4: after release(), and until the next call, both caches are empty;
\* the next getCharShape for a code that has data interprets it from the
\* font's bytecode, and a shape made by an interpretation is the shape first
\* returned for that code and size.
C4_ReleaseThenReinterpret ==
  /\ []((outcome.kind = "released" /\ frames = <<>>)
        => shapeCache = EmptyMap /\ shapeData = EmptyMap)
  /\ [][\A code \in Codes, size \in Sizes :
          (/\ outcome.kind = "released"
           /\ code # 0
           /\ code \in DOMAIN fontData.data
           /\ GetCharShape(code, size))
          => frames' = <<Frame(code, fontData.data[code])>>]_vars
  /\ []((outcome.kind = "shape" /\ ~outcome.fromCache)
        => outcome.shape = results[<<outcome.code, outcome.size>>])

\* A code is interpreted again and a shape returned for arguments that a
\* shape was returned for before: the caches were released in between.
C4_ReinterpretedAfterRelease ==
  /\ outcome.kind = "shape"
  /\ outcome.again
  /\ ~outcome.fromCache
  /\ outcome.shape.polylines # <<>>

\* C5: a cycle of sub-glyph references is cut at a recursion depth cap, the
\* sub-glyph past the cap counting as not found, and getCharShape returns:
\* the recursion never exhausts the call stack.
C5_CyclicRecursionCapped ==
  ~(outcome.kind = "threw" /\ outcome.error = "RangeError")

\* C6: the interpretation of a glyph without a sub-glyph cycle terminates,
\* also when a run of opcode 9 or 13, executed or skipped, has no (0,0) pair
\* before the end of the array: no getCharShape call runs forever.
C6_InterpretationTerminates == outcome.kind # "hang"

\* C7: opcode 5 executed with four positions on the stack makes getCharShape
\* raise an Error; no code being interpreted then gets a cache entry, the
\* entries the caches held when the call began are as they were, and the
\* shapes later calls return are those a font just constructed returns.
C7_StackOverflowLeavesCache ==
  /\ [][(/\ frames # <<>>
          /\ outcome.kind # "hang"
          /\ Top.i < Len(Top.data)
          /\ Top.data[Top.i + 1] = 5
          /\ Len(Top.state.sp) = 4
          /\ vars' # vars)
         => /\ outcome' = Outcome("threw", request.code, request.size, NoShape, NoShape,
                                  "Error")
            /\ frames' = <<>>
            /\ \A k \in 1..Len(frames) :
                  frames[k].code \notin (DOMAIN shapeCache' \cup DOMAIN shapeData')
            /\ \A c \in DOMAIN request.cacheBefore :
                  /\ c \in DOMAIN shapeCache' /\ shapeCache'[c] = request.cacheBefore[c]
                  /\ c \in DOMAIN shapeData' /\ shapeData'[c] = request.cacheBefore[c]]_vars
  /\ []((overflowed # {} /\ outcome.kind = "shape")
        => outcome.shape = FreshShape(fontData, outcome.code, outcome.size))

\* The call after one that raised the stack error is for another code and
\* is served from the entry a sub-glyph of the failing call left.
C7_ServedAfterOverflow ==
  /\ overflowed # {}
  /\ outcome.kind = "shape"
  /\ outcome.code \notin overflowed
  /\ outcome.fromCache
  /\ nCalls = 2
  /\ outcome.shape.polylines # <<>>

\* C8: getCharShape raises an exception for a position stack overflow alone.
C8_ThrowsOnlyOnStackOverflow == outcome.kind = "threw" => outcome.error = "Error"

C10_DoubleSizeDoublesCoordinates ==
  \A c \in Codes, size \in Sizes :
    (<<c, size>> \in DOMAIN results /\ <<c, 2 * size>> \in DOMAIN results) =>
      LET single == results[<<c, size>>].polylines
          double == results[<<c, 2 * size>>].polylines
          Twice(p) == Point(NumMul(p.x, Int2Num(2)), NumMul(p.y, Int2Num(2)))
      IN  /\ Len(double) = Len(single)
          /\ \A j \in 1..Len(single) :
                /\ Len(double[j]) = Len(single[j])
                /\ \A k \in 1..Len(single[j]) : double[j][k] = Twice(single[j][k])

\* A Bigfont glyph that the facade moved to the origin was returned at a
\* size and at twice the size.
C10_BigfontAtBothSizes ==
  /\ fontData.fontType = BIGFONT
  /\ outcome.kind = "shape"
  /\ outcome.shape # outcome.parserShape
  /\ outcome.shape.polylines # <<>>
  /\ \A size \in {1, 2} : <<outcome.code, size>> \in DOMAIN results

\* The ids a sequence holds.
Range(seq) == {seq[k] : k \in 1..Len(seq)}

\* The Points of a shape: its last point and those of its polylines.
ShapeIds(shape) == {shape.lastPoint} \cup Range(Flatten(shape.polylines))

\* The Points the caches hold.
CachedIds ==
  UNION ({ShapeIds(shapeCache[c]) : c \in DOMAIN shapeCache}
         \cup {ShapeIds(shapeData[c]) : c \in DOMAIN shapeData})

\* The Points a parseShape call in progress has stored: in its polylines,
\* committed or under construction, and on its position stack.
FrameIds(frame) ==
  Range(Flatten(frame.state.polylines)) \cup Range(frame.state.currentPolyline)
  \cup Range(frame.state.sp)

StoredIds == UNION {FrameIds(frames[k]) : k \in 1..Len(frames)} \cup CachedIds

\* C11: the Points of a shape getCharShape returned are not Points of a
\* cached shape; no step, the move in place of a returned shape by the
\* facade or by the caller included, changes the coordinates of a cached
\* shape; and each shape returned is the one a font just constructed
\* returns.
C11_ReturnedPointsAreCopies ==
  /\ [](outcome.kind \in {"shape", "offset"}
        => ShapeIds(outcome.shape) \cap CachedIds = {})
  /\ [][/\ \A c \in DOMAIN shapeCache \cap DOMAIN shapeCache' :
              Deref(heap', shapeCache'[c]) = Deref(heap, shapeCache[c])
        /\ \A c \in DOMAIN shapeData \cap DOMAIN shapeData' :
              Deref(heap', shapeData'[c]) = Deref(heap, shapeData[c])]_vars
  /\ [](outcome.kind = "shape"
        => Deref(heap, outcome.shape)
           = FreshShape(fontData, outcome.code, outcome.size))

\* A Bigfont shape is served from the cache after the facade moved, in
\* place, the shape it returned before.
C11_ServedAfterMoveInPlace ==
  /\ outcome.kind = "shape"
  /\ outcome.fromCache
  /\ fontData.fontType = BIGFONT
  /\ outcome.shape.polylines # <<>>
  /\ Deref(heap, outcome.shape)
     # ParserShape(fontData, Deref(heap, shapeCache[outcome.code]), outcome.size)

\* C12: the pen position of a parseShape call in progress is no Point that
\* a polyline, a position stack or a cached shape holds, and no step changes
\* the coordinates of a Point that one of these holds.
C12_NoStoredPointIsThePen ==
  /\ [](\A k \in 1..Len(frames) : frames[k].state.currentPoint \notin StoredIds)
  /\ [][\A id \in StoredIds : heap'[id] = heap[id]]_vars

\* A call in progress has committed polylines and pushed positions, and a
\* sub-glyph is cached.
C12_PointsStoredWhilePenMoves ==
  /\ frames # <<>>
  /\ Top.state.polylines # <<>>
  /\ Top.state.sp # <<>>
  /\ Top.state.currentPoint # 0
  /\ heap[Top.state.currentPoint] # Origin
  /\ shapeCache # EmptyMap

\* The tokens of the header of the buffer, split at single spaces.
HeaderTokens == Split(Trim(parseHeader(buffer, 0, <<>>, 0).text))

\* The values of ShxFontType as the text of a token.
TypeToken(fontType) ==
  CASE fontType = SHAPES -> <<115, 104, 97, 112, 101, 115>>
    [] fontType = BIGFONT -> <<98, 105, 103, 102, 111, 110, 116>>
    [] fontType = UNIFONT -> <<117, 110, 105, 102, 111, 110, 116>>
    [] OTHER -> <<>>

\* C13: the constructor accepts a buffer exactly if the second token of its
\* header, lower-cased, is shapes, bigfont or unifont; the font then has
\* that value as fontType, the first token as fileHeader and the third, if
\* there is one, as fileVersion.  For any other header the constructor
\* throws: no fontData is assigned and no shape can be asked for.
C13_HeaderAcceptedByTypeToken ==
  loaded.status # "pending" =>
    IF Len(HeaderTokens) >= 2
       /\ ToLower(HeaderTokens[2]) \in {TypeToken(SHAPES), TypeToken(BIGFONT), TypeToken(UNIFONT)}
    THEN /\ loaded.status = "done"
         /\ TypeToken(fontData.fontType) = ToLower(HeaderTokens[2])
         /\ loaded.fileHeader = HeaderTokens[1]
         /\ Len(HeaderTokens) >= 3 => loaded.fileVersion = HeaderTokens[3]
    ELSE /\ loaded.status = "threw"
         /\ fontData = NoFont
         /\ nCalls = 0 /\ frames = <<>> /\ outcome.kind = "none"

\* A font made from a header whose type token is not in lower case has
\* served a shape.
C13_MixedCaseTypeServes ==
  /\ loaded.status = "done"
  /\ HeaderTokens[2] # ToLower(HeaderTokens[2])
  /\ fontData.fontType = BIGFONT
  /\ loaded.fileVersion = <<49>>
  /\ outcome.kind = "shape"


\* Where the content section of the buffer starts.
ContentStart == parseHeader(buffer, 0, <<>>, 0).position

\* The count field of the content section holds a number that is not
\* positive: the Int16 after the four bytes of start and end code in
\* Shapes, the second Int16 (after which a third is read) in a Bigfont, the
\* Int32 in a Unifont.
NonPositiveCount ==
  CASE fontData.fontType = SHAPES ->
         Len(buffer) >= ContentStart + 6 /\ Int16(buffer, ContentStart + 4) <= 0
    [] fontData.fontType = BIGFONT ->
         Len(buffer) >= ContentStart + 6 /\ Int16(buffer, ContentStart + 2) <= 0
    [] fontData.fontType = UNIFONT ->
         Len(buffer) >= ContentStart + 4 /\ Int32(buffer, ContentStart) <= 0
    [] OTHER -> FALSE

\* The content section ends before its count field or inside the
\* descriptor table of a Shapes font or a Bigfont without changes.
TruncatedTable ==
  CASE fontData.fontType = SHAPES ->
         \/ Len(buffer) < ContentStart + 6
         \/ Len(buffer) < ContentStart + 6 + 4 * Int16(buffer, ContentStart + 4)
    [] fontData.fontType = BIGFONT ->
         \/ Len(buffer) < ContentStart + 6
         \/ /\ Int16(buffer, ContentStart + 4) = 0
            /\ Len(buffer) < ContentStart + 6 + 8 * Int16(buffer, ContentStart + 2)
    [] fontData.fontType = UNIFONT -> Len(buffer) < ContentStart + 6
    [] OTHER -> FALSE

\* C14: when the decoding of the content throws, as it does for a count that
\* is not positive and for a truncated descriptor table, the content is the
\* failure record (no data, info 'Failed to parse font file', baseUp 8,
\* baseDown 2, horizontal, not extended), the font is constructed, and no
\* getCharShape call on it returns a shape.
C14_DecodeFailureGivesEmptyFont ==
  loaded.status = "done" =>
    /\ NonPositiveCount \/ TruncatedTable => loaded.failed
    /\ loaded.failed =>
         /\ fontData.data = EmptyMap
         /\ loaded.info = <<70, 97, 105, 108, 101, 100, 32, 116, 111, 32, 112, 97, 114, 115,
                            101, 32, 102, 111, 110, 116, 32, 102, 105, 108, 101>>
         /\ fontData.baseUp = 8 /\ loaded.baseDown = 2
         /\ loaded.orientation = "horizontal" /\ ~fontData.isExtended
         /\ frames = <<>> /\ shapeCache = EmptyMap
         /\ outcome.kind \in {"none", "undefined", "released"}

\* A Bigfont whose descriptor table is cut short was asked for a code other
\* than 0 and returned undefined.
C14_TruncatedTableServesNothing ==
  /\ loaded.status = "done" /\ loaded.failed
  /\ fontData.fontType = BIGFONT
  /\ TruncatedTable /\ ~NonPositiveCount
  /\ outcome.kind = "undefined" /\ outcome.code # 0


\* The k-th descriptor of the table of a Shapes font: code and length.
ShapeDescriptor(k) ==
  [code |-> Uint16(buffer, ContentStart + 6 + 4 * (k - 1), TRUE),
   length |-> Uint16(buffer, ContentStart + 6 + 4 * (k - 1) + 2, TRUE)]

\* Where the payload of the k-th record of a Shapes font starts: after the
\* table and the payloads of the records before it.
RECURSIVE ShapePayloadStart(_)
ShapePayloadStart(k) ==
  IF k = 1 THEN ContentStart + 6 + 4 * Int16(buffer, ContentStart + 4)
  ELSE ShapePayloadStart(k - 1) + ShapeDescriptor(k - 1).length

\* The k-th descriptor of the table of a Bigfont.
BigfontDescriptor(k) ==
  [code |-> Uint16(buffer, ContentStart + 6 + 4 * Int16(buffer, ContentStart + 4)
                             + 8 * (k - 1), FALSE),
   length |-> Uint16(buffer, ContentStart + 6 + 4 * Int16(buffer, ContentStart + 4)
                               + 8 * (k - 1) + 2, TRUE),
   offset |-> Uint32(buffer, ContentStart + 6 + 4 * Int16(buffer, ContentStart + 4)
                               + 8 * (k - 1) + 4)]

\* The record of the given code, length and start is in the data exactly if
\* its payload lies inside the buffer, and then with its own bytes.
OwnRecord(code, length, start, stripped) ==
  IF start + length <= Len(buffer)
  THEN /\ code \in DOMAIN fontData.data
       /\ fontData.data[code] = IF stripped
                                THEN StripLabel(SubSeq(buffer, start + 1, start + length))
                                ELSE SubSeq(buffer, start + 1, start + length)
  ELSE code \notin DOMAIN fontData.data

\* C15: in a font loaded from a buffer in which the payload of some record
\* cannot be read, the data holds exactly the records whose payload lies
\* inside the buffer, each code with the bytes of its own record, the label
\* stripped in a Shapes font.  (Stated for the two decoders that find the
\* records by a descriptor table, and for records of positive length.)
C15_EachCodeHasItsOwnBytes ==
  loaded.status = "done" /\ ~loaded.failed =>
    /\ fontData.fontType = SHAPES =>
         \A k \in 1..Int16(buffer, ContentStart + 4) :
           ShapeDescriptor(k).length > 0 =>
             OwnRecord(ShapeDescriptor(k).code, ShapeDescriptor(k).length,
                       ShapePayloadStart(k), TRUE)
    /\ fontData.fontType = BIGFONT =>
         \A k \in 1..Int16(buffer, ContentStart + 2) :
           BigfontDescriptor(k).length > 0 =>
             OwnRecord(BigfontDescriptor(k).code, BigfontDescriptor(k).length,
                       BigfontDescriptor(k).offset, FALSE)

\* An Arc has been built by fromBulge or fromOctant and tessellated.
Tessellated == arc.stage = "done" /\ arc.req.kind # "opcode"

\* The point an arc ends at: its end, or for an octant arc the point of its
\* circle at the end angle.
EndOfArc(a) == IF a.hasEnd THEN a.end ELSE OnCircle(a.center, a.radius, a.endAngle)

\* C16: tessellate returns exactly the start point and the end point for
\* every arc built with bulge 0 and for every arc whose radius is 0,
\* whether fromBulge or fromOctant built it.
C16_DegenerateArcIsItsEndpoints ==
  /\ Tessellated
  /\ \/ arc.req.kind = "bulge" /\ (arc.req.bulge = 0 \/ arc.built.radiusIsZero)
     \/ arc.req.kind = "octant" /\ arc.built.radius = Zero
  => /\ ~arc.out.threw
     /\ arc.out.points = <<arc.built.start, EndOfArc(arc.built)>>


\* max(-1, min(1, bulge)) in 127ths.
ClampBulge(bulge) ==
  IF bulge > 127 THEN 127 ELSE IF bulge < 0 - 127 THEN 0 - 127 ELSE bulge

\* The end point of the first segment of opcode 12 or 13 drawn from pen.
SegmentEnd(data, pen) ==
  PointAdd(pen, Point(Int2Num(byteToSByte(data[2])), Int2Num(byteToSByte(data[3]))))

\* What opcode 12 or 13 adds to the polyline for the signed bulge byte b:
\* the end point for 0, else the points but the first of the arc built from
\* max(b, -127) / 127.
SegmentPoints(data, pen, b) ==
  IF b = 0 THEN <<SegmentEnd(data, pen)>>
  ELSE Tail(tessellate(fromBulge(pen, SegmentEnd(data, pen),
                                 IF b < 0 - 127 THEN 0 - 127 ELSE b)).points)

\* C17: the bulge an arc is built from lies in [-1, 1]: fromBulge with a
\* bulge outside builds, and tessellates into, the arc of the bulge clamped
\* to +1 or -1; opcodes 12 and 13 draw the arc of bulge max(b, -127) / 127
\* for the signed bulge byte b, so that of -1 for byte 0x80.
C17_BulgeWithinUnitRange ==
  /\ arc.stage \in {"built", "done"} /\ arc.req.kind = "bulge" =>
       /\ arc.built.bulge \in (0 - 127)..127
       /\ arc.built = fromBulge(arc.req.start, arc.req.end, ClampBulge(arc.req.bulge))
       /\ arc.stage = "done" =>
            arc.out = tessellate(fromBulge(arc.req.start, arc.req.end,
                                           ClampBulge(arc.req.bulge)))
  /\ arc.stage = "done" /\ arc.req.kind = "opcode" /\ arc.req.data[1] \in {12, 13} =>
       /\ arc.out.kind = "ok"
       /\ arc.out.state.currentPoint = SegmentEnd(arc.req.data, arc.req.pen)
       /\ arc.out.state.currentPolyline =
            <<arc.req.pen>> \o SegmentPoints(arc.req.data, arc.req.pen,
                                             byteToSByte(arc.req.data[4]))
       /\ arc.req.data[4] = 128 =>
            arc.out.state.currentPolyline =
              <<arc.req.pen>> \o Tail(tessellate(fromBulge(arc.req.pen,
                                                           SegmentEnd(arc.req.data, arc.req.pen),
                                                           0 - 127)).points)

\* Opcode 12 with bulge byte 0x80 has drawn a half circle.
C17_ByteMinus128Drawn ==
  /\ arc.stage = "done" /\ arc.req.kind = "opcode"
  /\ arc.req.data[1] = 12 /\ arc.req.data[4] = 128
  /\ Len(arc.out.state.currentPolyline) > 3


\* The two points are less than a thousandth apart in x and in y.
Near(p, q) ==
  /\ NumLt(NumSub(p.x, q.x), Norm(1, 1000)) /\ NumLt(NumSub(q.x, p.x), Norm(1, 1000))
  /\ NumLt(NumSub(p.y, q.y), Norm(1, 1000)) /\ NumLt(NumSub(q.y, p.y), Norm(1, 1000))

\* C18: an octant arc of octant count 0 spans 8 octants: whatever its start
\* octant and direction, its end angle is its start angle plus or minus 8
\* octants and the last point of its tessellation is where the first is; so
\* opcode 10 with count bits 0 leaves the pen where it was.
C18_FullCircleReturnsToStart ==
  /\ arc.stage \in {"built", "done"} /\ arc.req.kind = "octant" /\ arc.req.octantCount = 0 =>
       /\ arc.built.endAngle = arc.built.startAngle
                               + (IF arc.req.isClockwise THEN 0 - 8 * 180 ELSE 8 * 180)
       /\ arc.stage = "done" =>
            /\ ~arc.out.threw
            /\ Near(arc.out.points[Len(arc.out.points)], arc.out.points[1])
  /\ /\ arc.stage = "done" /\ arc.req.kind = "opcode"
     /\ arc.req.data[1] = 10 /\ arc.req.data[3] % 8 = 0
     => /\ arc.out.kind = "ok"
        /\ Near(arc.out.state.currentPoint, arc.req.pen)


\* The operand bytes of opcode 7 at index in the layout of the font's
\* sub-type.
SubshapeOperands(font, data, index) ==
  CASE font.fontType = SHAPES -> 1
    [] font.fontType = BIGFONT ->
         IF DataAt(data, index + 1) # 0 THEN 1
         ELSE IF font.isExtended THEN 7 ELSE 6
    [] OTHER -> 2

\* The innermost parseShape call is about to execute the given opcode.
About(opcode) ==
  /\ frames # <<>> /\ outcome.kind # "hang"
  /\ Top.i < Len(Top.data)
  /\ Top.data[Top.i + 1] = opcode

\* C19: the bytes opcode 14 skips for the command that follows it are the
\* bytes the interpreter consumes when it executes that command, whatever
\* the command and the sub-type of the font: the loop goes on at the index
\* at which it would go on after executing the command.
C19_SkipMatchesExecution ==
  [][/\ About(14)
     /\ Top.i + 1 < Len(Top.data)
     /\ Command(fontData, Top.data, Top.i + 1, Top.state).kind \in {"ok", "sub"}
     /\ Len(frames') = Len(frames) /\ outcome'.kind # "hang"
     => frames'[Len(frames)].i = Command(fontData, Top.data, Top.i + 1, Top.state).i + 1]_vars

\* C20: executing opcode 7 consumes exactly the operand bytes of the layout
\* of the sub-type, so that the next command executed in the glyph is the
\* byte after them.
C20_SubshapeConsumesItsOperands ==
  [][About(7) /\ Len(frames') >= Len(frames)
     => (IF Len(frames') > Len(frames) THEN frames'[Len(frames)].i + 1
         ELSE frames'[Len(frames)].i)
        = Top.i + 1 + SubshapeOperands(fontData, Top.data, Top.i)]_vars

\* The index after the run of byte pairs that starts at index k, a pair
\* (0,0) ending it: the stride is 2 for opcode 9 and 3 for opcode 13, whose
\* pairs but the last are followed by a bulge byte.
RECURSIVE AfterRun(_, _, _)
AfterRun(data, k, stride) ==
  IF k + 1 >= Len(data) THEN Len(data)
  ELSE IF data[k + 1] = 0 /\ data[k + 2] = 0 THEN k + 2
  ELSE AfterRun(data, k + stride, stride)

\* The index of the first byte after the command at index j and its
\* operands, in the layout of the font's sub-type.
AfterCommand(font, data, j) ==
  CASE DataAt(data, j) \in {3, 4} -> j + 2
    [] DataAt(data, j) = 7 -> j + 1 + SubshapeOperands(font, data, j)
    [] DataAt(data, j) \in {8, 10} -> j + 3
    [] DataAt(data, j) = 9 -> AfterRun(data, j + 1, 2)
    [] DataAt(data, j) = 11 -> j + 6
    [] DataAt(data, j) = 12 -> j + 4
    [] DataAt(data, j) = 13 -> AfterRun(data, j + 1, 3)
    [] OTHER -> j + 1

\* C21: opcode 14 executes nothing: it leaves the pen position, the pen
\* flag, the scale, the position stack, the polyline under construction and
\* the committed polylines as they were, whatever command follows it, and
\* the interpretation goes on at the first byte after the operands of the
\* command skipped.
C21_SkipExecutesNothing ==
  [][About(14)
     => /\ Len(frames') = Len(frames)
        /\ frames'[Len(frames)].state = Top.state
        /\ outcome'.kind # "hang"
        /\ frames'[Len(frames)].i = AfterCommand(fontData, Top.data, Top.i + 1)]_vars

\* C22: at every step of every interpretation in progress, the nested ones
\* of sub-glyphs included, each with a stack of its own, the position stack
\* holds at most 4 positions.
C22_StackHoldsAtMostFour ==
  \A k \in 1..Len(frames) : Len(frames[k].state.sp) <= 4

\* A glyph with 4 positions on its stack is waiting for a sub-glyph, which
\* is being interpreted with a stack of its own.
C22_FullStackAboveSubGlyph ==
  /\ Len(frames) = 2
  /\ Len(frames[1].state.sp) = 4
  /\ frames[2].i > 0 /\ frames[2].state.sp = <<>>

\* C23: opcode 6 sets the pen position to the position the most recent
\* unmatched opcode 5 saved, whatever moved the pen in between: opcode 5
\* puts the pen position on top of the stack, opcode 6 takes the top off and
\* makes it the pen position, and no other command, nor a sub-glyph,
\* changes the stack.  On an empty stack opcode 6 changes nothing and
\* raises no error.
C23_PopRestoresLastPush ==
  /\ [][About(5) /\ Len(frames') = Len(frames)
        => frames'[Len(frames)].state.sp = Append(Top.state.sp, Top.state.currentPoint)]_vars
  /\ [][About(6)
        => /\ Len(frames') = Len(frames) /\ outcome' = outcome
           /\ frames'[Len(frames)].i = Top.i + 1
           /\ IF Top.state.sp = <<>>
              THEN frames'[Len(frames)].state = Top.state
              ELSE /\ frames'[Len(frames)].state.currentPoint
                        = Top.state.sp[Len(Top.state.sp)]
                   /\ frames'[Len(frames)].state.sp
                        = SubSeq(Top.state.sp, 1, Len(Top.state.sp) - 1)]_vars
  /\ [][\A k \in 1..Len(frames) :
          /\ k <= Len(frames')
          /\ frames'[k].code = frames[k].code
          /\ ~(k = Len(frames) /\ (About(5) \/ About(6)))
          => frames'[k].state.sp = frames[k].state.sp]_vars

\* The pen, moved after the second of two pushes and after a pop, is back
\* at the position the first push saved, and a third pop has found the
\* stack empty.
C23_PoppedPastEmpty ==
  /\ Len(frames) = 1
  /\ Top.data = <<5, 1, 36, 5, 32, 6, 44, 6, 32, 6, 2, 0>>
  /\ Top.i = 10
  /\ Top.state.sp = <<>>
  /\ Top.state.currentPoint # Origin
  /\ Len(Top.state.currentPolyline) = 5

\* Every polyline of the shape has at least two points.
TwoPointPolylines(shape) ==
  \A k \in 1..Len(shape.polylines) : Len(shape.polylines[k]) >= 2

\* C24: every polyline of every shape interpretation produces has at least
\* 2 points: those committed so far in each parseShape call in progress
\* (by opcode 2, on entry to opcode 7, spliced in from a sub-glyph), those
\* of the cached shapes and those of the shapes getCharShape returns.
C24_PolylinesHaveTwoPoints ==
  /\ \A k \in 1..Len(frames) : TwoPointPolylines(ParsedShape(frames[k]))
  /\ \A c \in DOMAIN shapeCache : TwoPointPolylines(shapeCache[c])
  /\ \A c \in DOMAIN shapeData : TwoPointPolylines(shapeData[c])
  /\ outcome.kind = "shape"
       => TwoPointPolylines(outcome.shape) /\ TwoPointPolylines(outcome.parserShape)
  /\ \A q \in DOMAIN results : TwoPointPolylines(results[q])

\* A polyline of one point was closed by opcode 2 and another on entry to
\* opcode 7, and the sub-glyph's stroke is all the parent has committed.
C24_OnePointPolylinesDropped ==
  /\ Len(frames) = 1
  /\ Top.data = <<1, 2, 1, 7, 1, 1, 36, 2, 7, 4, 7, 0, 1, 32, 2>>
  /\ Top.i = 5
  /\ Len(Top.state.polylines) = 1
  /\ Len(Top.state.polylines[1]) = 2
  /\ Top.state.currentPolyline = <<>>

\* The tessellation of the arc opcode 10 names at the index of the innermost
\* parseShape call.
OctantArcAhead ==
  tessellateOctant(OctantArcFrom(Top.state.currentPoint,
                                 NumMul(ByteNum(DataAt(Top.data, Top.i + 1)), Top.state.scale),
                                 ByteBits(DataAt(Top.data, Top.i + 2))))

\* C25: opcode 10 with the pen down turns the polyline under construction
\* into its previous content minus its last point, followed by the points
\* of the arc's tessellation, the first of which is the pen position before
\* the arc; with the pen up the polyline is left alone; either way the pen
\* is afterwards at the last point of the tessellation.
C25_OctantArcReplacesLastPoint ==
  [][About(10)
     => /\ Len(frames') = Len(frames)
        /\ outcome' = outcome
        /\ LET before == Top.state
               after == frames'[Len(frames)].state
               points == OctantArcAhead.points
           IN  /\ points # <<>>
               /\ points[1] = before.currentPoint
               /\ after.currentPoint = points[Len(points)]
               /\ after.currentPolyline =
                    IF before.isPenDown
                    THEN (IF before.currentPolyline = <<>> THEN <<>>
                          ELSE SubSeq(before.currentPolyline, 1,
                                      Len(before.currentPolyline) - 1)) \o points
                    ELSE before.currentPolyline]_vars

\* s(v) = v for 0 <= v <= 127 and v - 256 for 128 <= v <= 255.
SignedByte(v) == IF v <= 127 THEN v ELSE v - 256

\* The state after the pen moved by (s(b1), s(b2)) x scale.
Displaced(state, b1, b2) ==
  LET p == PointAdd(state.currentPoint,
                    Point(NumMul(Int2Num(SignedByte(b1)), state.scale),
                          NumMul(Int2Num(SignedByte(b2)), state.scale)))
  IN  [state EXCEPT !.currentPoint = p,
                    !.currentPolyline = IF state.isPenDown THEN Append(@, p) ELSE @]

\* The index of the second byte of the first pair (0,0) among the pairs
\* that start at index k, or -1 if the array ends before such a pair.
RECURSIVE EndOfPairs(_, _)
EndOfPairs(data, k) ==
  IF k + 1 >= Len(data) THEN 0 - 1
  ELSE IF data[k + 1] = 0 /\ data[k + 2] = 0 THEN k + 1
  ELSE EndOfPairs(data, k + 2)

\* The state after the moves of the pairs from index k up to the pair (0,0).
RECURSIVE DisplacedByPairs(_, _, _)
DisplacedByPairs(state, data, k) ==
  IF data[k + 1] = 0 /\ data[k + 2] = 0 THEN state
  ELSE DisplacedByPairs(Displaced(state, data[k + 1], data[k + 2]), data, k + 2)

\* C26: opcode 8 moves the pen by (s(b1), s(b2)) x scale, and opcode 9 does
\* so for each following byte pair up to a pair (0,0), which moves nothing
\* and ends the run; with the pen down each position moved to is appended
\* to the polyline under construction, and the loop goes on behind the
\* operands.
C26_DisplacementsAreSignedBytes ==
  /\ [][About(8) /\ Top.i + 2 < Len(Top.data)
        => /\ Len(frames') = Len(frames) /\ outcome' = outcome
           /\ frames'[Len(frames)].i = Top.i + 3
           /\ frames'[Len(frames)].state
                = Displaced(Top.state, Top.data[Top.i + 2], Top.data[Top.i + 3])]_vars
  /\ [][About(9) /\ EndOfPairs(Top.data, Top.i + 1) >= 0
        => /\ Len(frames') = Len(frames) /\ outcome' = outcome
           /\ frames'[Len(frames)].i = EndOfPairs(Top.data, Top.i + 1) + 1
           /\ frames'[Len(frames)].state
                = DisplacedByPairs(Top.state, Top.data, Top.i + 1)]_vars

\* A run of opcode 9 with the pen down has moved the pen by (1, 1) and by
\* (2, -1) and has ended at its pair (0,0).
C26_RunWithNegativeByteDone ==
  /\ Len(frames) = 1
  /\ Top.data = <<1, 9, 1, 1, 2, 255, 0, 0, 2, 14, 9, 3, 3, 0, 0, 0>>
  /\ Top.i = 8
  /\ Top.state.currentPoint = Point(Int2Num(3), Zero)
  /\ Top.state.currentPolyline
       = <<Origin, Point(Int2Num(1), Int2Num(1)), Point(Int2Num(3), Zero)>>

\* The pen position, scale factor, position stack and pen flag of the two
\* states are the same.
SamePen(before, after) ==
  /\ after.currentPoint = before.currentPoint
  /\ after.scale = before.scale
  /\ after.sp = before.sp
  /\ after.isPenDown = before.isPenDown

\* C27: opcode 7 changes neither the pen position nor the scale factor, the
\* position stack or the pen flag of the parseShape call that executes it,
\* whatever the sub-type of the font and whether the sub-glyph is absent,
\* cached or interpreted: they are the same when opcode 7 is entered, all
\* the while the sub-glyph is interpreted and when the parent's loop goes on,
\* and the polyline under construction is empty then.
C27_SubshapeKeepsPen ==
  /\ [][About(7) /\ frames' # <<>>
        => /\ SamePen(Top.state, frames'[Len(frames)].state)
           /\ Len(frames') = Len(frames)
                => frames'[Len(frames)].state.currentPolyline = <<>>]_vars
  /\ [][\A k \in 1..(Len(frames) - 1) :
          k <= Len(frames')
          => /\ SamePen(frames[k].state, frames'[k].state)
             /\ Len(frames') = k => frames'[k].state.currentPolyline = <<>>]_vars

\* Opcode 7, executed with the pen down away from the origin, is behind the
\* parent, whose pen is still down at the same place.
C27_PenStillDownAfterSubshape ==
  /\ Len(frames) = 1
  /\ Top.data = <<1, 32, 7, 1, 4, 2, 7, 1, 0>>
  /\ Top.i = 4
  /\ Top.state.isPenDown
  /\ Top.state.currentPoint = Point(Int2Num(2), Zero)
  /\ Top.state.currentPolyline = <<>>
  /\ Len(Top.state.polylines) > 1

\* The code opcode 7 names at the index of the innermost parseShape call.
SubCodeAhead == handleSubshapeCommand(fontData, Top.data, Top.i, Top.state).subCode

\* C28: when opcode 7 names the code 0 or a code without bytecode, no
\* exception is raised, the parent gets no polyline but the one it had
\* under construction, no cache gets an entry and the parent's loop goes
\* on at the byte after the operands of opcode 7.
C28_AbsentSubshapeDrawsNothing ==
  [][About(7) /\ (SubCodeAhead = 0 \/ ~HasData(fontData, SubCodeAhead))
     => /\ Len(frames') = Len(frames)
        /\ outcome' = outcome
        /\ shapeCache' = shapeCache /\ shapeData' = shapeData
        /\ frames'[Len(frames)].state.polylines
             = IF Len(Top.state.currentPolyline) > 1
               THEN Append(Top.state.polylines, Top.state.currentPolyline)
               ELSE Top.state.polylines
        /\ frames'[Len(frames)].i
             = Top.i + 1 + SubshapeOperands(fontData, Top.data, Top.i)]_vars

\* The polylines of the shape shifted so that the lower-left corner of their
\* bounding box is (0,0), scaled by width / extentX and height / extentY
\* (by 1 on an axis whose extent is 0) and translated by the origin.
Composed(base, width, height, origin) ==
  LET b == bbox(base)
      extentX == NumSub(b.maxX, b.minX)
      extentY == NumSub(b.maxY, b.minY)
      factorX == IF extentX = Zero THEN One ELSE NumDiv(width, extentX)
      factorY == IF extentY = Zero THEN One ELSE NumDiv(height, extentY)
      Placed(p) == Point(NumAdd(NumMul(NumSub(p.x, b.minX), factorX), origin.x),
                         NumAdd(NumMul(NumSub(p.y, b.minY), factorY), origin.y))
  IN  [j \in 1..Len(base.polylines) |->
         [k \in 1..Len(base.polylines[j]) |-> Placed(base.polylines[j][k])]]

\* The bounding box of the polylines has its lower-left corner at the origin
\* and measures width by height on the axes on which the shape has an
\* extent other than 0.
BoxedAt(polylines, base, width, height, origin) ==
  LET b == bbox(base)
      box == bbox(ShxShape(Origin, polylines))
  IN  /\ box.minX = origin.x /\ box.minY = origin.y
      /\ NumSub(b.maxX, b.minX) # Zero => NumSub(box.maxX, box.minX) = width
      /\ NumSub(b.maxY, b.minY) # Zero => NumSub(box.maxY, box.minY) = height

\* Opcode 7 draws a cached sub-glyph.
DrawsCached ==
  /\ About(7) /\ SubCodeAhead # 0 /\ SubCodeAhead \in DOMAIN shapeCache

\* The polylines the step added to those the parseShape call k had committed.
Spliced(k, committed) ==
  SubSeq(frames'[k].state.polylines, Len(committed) + 1, Len(frames'[k].state.polylines))

\* The numbers the composition of the sub-glyph starts from are finite.
FiniteComposition(base, width, height, origin) ==
  /\ IsFinite(width) /\ IsFinite(height) /\ IsFinite(origin.x) /\ IsFinite(origin.y)
  /\ \A p \in Range(Flatten(base.polylines)) : IsFinite(p.x) /\ IsFinite(p.y)

\* C29 as stated: the polylines opcode 7 splices in, for a cached sub-glyph
\* and for one interpreted first, are the sub-glyph's unscaled polylines
\* shifted to the origin, scaled per axis and translated by the origin, and
\* their bounding box has its lower-left corner at the origin and measures
\* width by height on the axes with an extent other than 0.
C29_SplicedBoxIsWidthByHeight ==
  /\ [][DrawsCached
        => LET r == handleSubshapeCommand(fontData, Top.data, Top.i, Top.state)
               base == shapeCache[SubCodeAhead]
               spliced == Spliced(Len(frames), r.state.polylines)
           IN  /\ spliced = Composed(base, r.width, r.height, r.origin)
               /\ spliced # <<>> => BoxedAt(spliced, base, r.width, r.height, r.origin)]_vars
  /\ [][Finished /\ Len(frames) > 1
        => LET parent == frames[Len(frames) - 1]
               base == ParsedShape(Top)
               spliced == Spliced(Len(frames) - 1, parent.state.polylines)
           IN  /\ spliced = Composed(base, parent.width, parent.height, parent.origin)
               /\ spliced # <<>>
                    => BoxedAt(spliced, base, parent.width, parent.height, parent.origin)]_vars

\* C29: the polylines opcode 7 splices in, for a cached sub-glyph and for
\* one interpreted first, are the sub-glyph's unscaled polylines shifted to
\* the origin, scaled per axis and translated by the origin; when the
\* width, the height, the origin and the sub-glyph's points are finite,
\* their bounding box has its lower-left corner at the origin and measures
\* width by height on the axes with an extent other than 0.
C29_FiniteSplicedBoxIsWidthByHeight ==
  /\ [][DrawsCached
        => LET r == handleSubshapeCommand(fontData, Top.data, Top.i, Top.state)
               base == shapeCache[SubCodeAhead]
               spliced == Spliced(Len(frames), r.state.polylines)
           IN  /\ spliced = Composed(base, r.width, r.height, r.origin)
               /\ spliced # <<>> /\ FiniteComposition(base, r.width, r.height, r.origin)
                    => BoxedAt(spliced, base, r.width, r.height, r.origin)]_vars
  /\ [][Finished /\ Len(frames) > 1
        => LET parent == frames[Len(frames) - 1]
               base == ParsedShape(Top)
               spliced == Spliced(Len(frames) - 1, parent.state.polylines)
           IN  /\ spliced = Composed(base, parent.width, parent.height, parent.origin)
               /\ spliced # <<>>
                  /\ FiniteComposition(base, parent.width, parent.height, parent.origin)
                    => BoxedAt(spliced, base, parent.width, parent.height, parent.origin)]_vars

\* A glyph whose stroke rises 2 above its lowest point was drawn as a
\* sub-glyph at height 6 from the pen position (2, 0): the spliced polyline
\* rises 6 above (2, 0).
C29_StrokeSplicedAtHeight ==
  /\ Len(frames) = 1
  /\ Top.data = <<1, 32, 7, 1, 0>>
  /\ Top.i = 4
  /\ shapeCache[1].polylines = <<<<Origin, Point(Zero, Int2Num(2))>>>>
  /\ Top.state.polylines
       = << <<Origin, Point(Int2Num(2), Zero)>>,
            <<Point(Int2Num(2), Zero), Point(Int2Num(2), Int2Num(6))>> >>

\* C30: the unscaled shape cached for a code is the shape its bytecode
\* yields when interpreted from pen (0,0), scale 1, an empty stack and pen
\* up, whether the code was requested through getCharShape or reached as a
\* sub-glyph, with whatever pen position, scale, stack and pen flag the
\* parent had at that moment; every parseShape call starts from that state.
C30_CachedGlyphIsFreshGlyph ==
  /\ [](\A c \in DOMAIN shapeCache : shapeCache[c] = FreshGlyph(fontData, c))
  /\ [][Len(frames') = Len(frames) + 1
        => /\ frames'[Len(frames')].i = 0
           /\ frames'[Len(frames')].state = NewState]_vars

\* Code 1 was interpreted first as a sub-glyph of code 2, whose pen was
\* down away from the origin, and is cached.
C30_CachedAsSubGlyph ==
  /\ Len(frames) = 1
  /\ Top.code = 2
  /\ Top.state.isPenDown
  /\ Top.state.currentPoint # Origin
  /\ 1 \in DOMAIN shapeCache
  /\ 1 \notin DOMAIN request.cacheBefore
  /\ shapeCache[1].polylines # <<>>

\* The payload of the k-th record of a Shapes font.
ShapePayload(k) ==
  SubSeq(buffer, ShapePayloadStart(k) + 1, ShapePayloadStart(k) + ShapeDescriptor(k).length)

\* The payload lies inside the buffer and is a text, a NUL and at least
\* three bytes.
InfoBlockForm(payload, start) ==
  /\ start + Len(payload) <= Len(buffer)
  /\ IndexOfNul(payload) >= 0
  /\ IndexOfNul(payload) + 3 < Len(payload)

\* C31: when the payload of code 0 of a Shapes font is a text, a NUL,
\* baseUp, baseDown and orientation, the font has the text as info, the
\* two bytes after the NUL as baseUp and baseDown and is horizontal exactly
\* if the third byte after the NUL is 0.
C31_ShapesInfoBlockDecoded ==
  loaded.status = "done" /\ ~loaded.failed /\ fontData.fontType = SHAPES =>
    \A k \in 1..Int16(buffer, ContentStart + 4) :
      /\ ShapeDescriptor(k).code = 0
      /\ ShapeDescriptor(k).length > 0
      /\ InfoBlockForm(ShapePayload(k), ShapePayloadStart(k))
      => LET payload == ShapePayload(k)
             nul == IndexOfNul(payload)
         IN  /\ loaded.info = SubSeq(payload, 1, nul)
             /\ fontData.baseUp = payload[nul + 2]
             /\ loaded.baseDown = payload[nul + 3]
             /\ loaded.orientation = "horizontal" <=> payload[nul + 4] = 0

\* The payload of the k-th record of a Bigfont.
BigfontPayload(k) ==
  SubSeq(buffer, BigfontDescriptor(k).offset + 1,
         BigfontDescriptor(k).offset + BigfontDescriptor(k).length)

\* The number of bytes that follow the first NUL of the payload.
TailLength(payload) == Len(payload) - IndexOfNul(payload) - 1

\* C32: in a Bigfont whose code 0 has a payload with a NUL after the info
\* text, a tail of exactly 4 bytes after the NUL gives baseUp, baseDown and
\* orientation from its first three bytes and isExtended false; a tail of
\* any other length gives isExtended true and the fields in the order
\* baseUp, reserved, orientation, baseDown.
C32_BigfontTailDecidesLayout ==
  loaded.status = "done" /\ ~loaded.failed /\ fontData.fontType = BIGFONT =>
    \A k \in 1..Int16(buffer, ContentStart + 2) :
      /\ BigfontDescriptor(k).code = 0
      /\ BigfontDescriptor(k).length > 0
      /\ BigfontDescriptor(k).offset + BigfontDescriptor(k).length <= Len(buffer)
      /\ IndexOfNul(BigfontPayload(k)) >= 0
      => LET payload == BigfontPayload(k)
             nul == IndexOfNul(payload)
         IN  IF TailLength(payload) = 4
             THEN /\ ~fontData.isExtended
                  /\ fontData.baseUp = payload[nul + 2]
                  /\ loaded.baseDown = payload[nul + 3]
                  /\ loaded.orientation = "horizontal" <=> payload[nul + 4] = 0
             ELSE /\ fontData.isExtended
                  /\ TailLength(payload) > 4
                       => /\ fontData.baseUp = payload[nul + 2]
                          /\ loaded.orientation = "horizontal" <=> payload[nul + 4] = 0
                          /\ loaded.baseDown = payload[nul + 5]

\* No other descriptor of the table of the Shapes font has the code of the
\* k-th and a payload.
OnlyPayloadOfItsCode(k) ==
  \A j \in 1..Int16(buffer, ContentStart + 4) :
    j # k /\ ShapeDescriptor(j).code = ShapeDescriptor(k).code
    => ShapeDescriptor(j).length = 0

\* C33: in a Shapes font, the bytecode stored for the code of a descriptor
\* with length > 0 whose payload is read is what follows the first NUL of
\* the payload (nothing is stored when nothing follows it); a descriptor
\* with length 0 gives no entry, and the decoding does not fail for it.
C33_ShapesBytecodeFollowsLabel ==
  loaded.status = "done" /\ fontData.fontType = SHAPES =>
    /\ loaded.failed => NonPositiveCount \/ TruncatedTable
    /\ ~loaded.failed =>
         \A k \in 1..Int16(buffer, ContentStart + 4) :
           OnlyPayloadOfItsCode(k) =>
             IF ShapeDescriptor(k).length = 0
             THEN ShapeDescriptor(k).code \notin DOMAIN fontData.data
             ELSE LET payload == ShapePayload(k)
                      nul == IndexOfNul(payload)
                  IN  ShapePayloadStart(k) + ShapeDescriptor(k).length <= Len(buffer)
                      /\ nul >= 0
                      => IF nul + 1 < Len(payload)
                         THEN /\ ShapeDescriptor(k).code \in DOMAIN fontData.data
                              /\ fontData.data[ShapeDescriptor(k).code]
                                   = SubSeq(payload, nul + 2, Len(payload))
                         ELSE ShapeDescriptor(k).code \notin DOMAIN fontData.data

\* A Shapes font is loaded from a table with a descriptor of length 0, a
\* record that is a label alone and a record with a label and bytecode.
C33_LabelStrippedLengthZeroSkipped ==
  /\ loaded.status = "done" /\ ~loaded.failed /\ fontData.fontType = SHAPES
  /\ Int16(buffer, ContentStart + 4) = 3
  /\ ShapeDescriptor(2).length = 0
  /\ DOMAIN fontData.data = {2}
  /\ fontData.data[2] = <<1, 36, 0>>
  /\ ShapePayload(3) = <<0, 1, 36, 0>>

\* The info block of a Unifont: the bytes after the count and the length.
UnifontInfoBlock ==
  SubSeq(buffer, ContentStart + 7, ContentStart + 6 + Int16(buffer, ContentStart + 4))

\* Where the j-th record of a Unifont starts: after the info block and the
\* records before it, each a code, a length and a payload of that length.
RECURSIVE UnifontRecordStart(_)
UnifontRecordStart(j) ==
  IF j = 1 THEN ContentStart + 6 + Int16(buffer, ContentStart + 4)
  ELSE UnifontRecordStart(j - 1) + 4 + Uint16(buffer, UnifontRecordStart(j - 1) + 2, TRUE)

\* The j-th record of a Unifont lies inside the buffer, descriptor and
\* payload, and so does every record before it.
RECURSIVE UnifontRecordInside(_)
UnifontRecordInside(j) ==
  /\ j > 1 => UnifontRecordInside(j - 1)
  /\ UnifontRecordStart(j) + 4 <= Len(buffer)
  /\ UnifontRecordStart(j) + 4 + Uint16(buffer, UnifontRecordStart(j) + 2, TRUE) <= Len(buffer)

\* Code and payload of the j-th record of a Unifont.
UnifontRecord(j) ==
  [code |-> Uint16(buffer, UnifontRecordStart(j), TRUE),
   payload |-> SubSeq(buffer, UnifontRecordStart(j) + 5,
                      UnifontRecordStart(j) + 4
                      + Uint16(buffer, UnifontRecordStart(j) + 2, TRUE))]

\* The count and the info block of the Unifont can be read and the count is
\* positive.
UnifontHeadRead ==
  /\ Len(buffer) >= ContentStart + 6
  /\ Int32(buffer, ContentStart) > 0
  /\ Int16(buffer, ContentStart + 4) >= 0
  /\ Len(buffer) >= ContentStart + 6 + Int16(buffer, ContentStart + 4)

\* C34: the Unifont decoder, once the count and the info block are read,
\* returns the content and not the failure record, with the metrics of the
\* info block, whatever becomes of the records; it decodes no more than
\* count - 1 records, and what it holds are the glyphs of the records that
\* lie inside the buffer with every record before them: a record that runs
\* past the buffer ends the reading and takes nothing away.
C34_UnifontKeepsWhatItRead ==
  loaded.status = "done" /\ fontData.fontType = UNIFONT /\ UnifontHeadRead =>
    /\ ~loaded.failed
    /\ LET nul == IndexOfNul(UnifontInfoBlock)
       IN  nul >= 0 /\ nul + 3 < Len(UnifontInfoBlock)
           => /\ loaded.info = SubSeq(UnifontInfoBlock, 1, nul)
              /\ fontData.baseUp = UnifontInfoBlock[nul + 2]
              /\ loaded.baseDown = UnifontInfoBlock[nul + 3]
    /\ Cardinality(DOMAIN fontData.data) <= Int32(buffer, ContentStart) - 1
    /\ \A j \in 1..(Int32(buffer, ContentStart) - 1) :
         /\ UnifontRecordInside(j)
         /\ IndexOfNul(UnifontRecord(j).payload) + 1 < Len(UnifontRecord(j).payload)
         /\ \A h \in (j + 1)..(Int32(buffer, ContentStart) - 1) :
              UnifontRecordInside(h) => UnifontRecord(h).code # UnifontRecord(j).code
         => /\ UnifontRecord(j).code \in DOMAIN fontData.data
            /\ fontData.data[UnifontRecord(j).code] = StripLabel(UnifontRecord(j).payload)
    /\ \A c \in DOMAIN fontData.data :
         \E j \in 1..(Int32(buffer, ContentStart) - 1) :
           UnifontRecordInside(j) /\ UnifontRecord(j).code = c

\* A Unifont was loaded from a buffer in which the record of glyph 2 is cut
\* short: it has glyph 1 and the baseUp of its info block.
C34_CutRecordEndsReading ==
  /\ loaded.status = "done" /\ ~loaded.failed /\ fontData.fontType = UNIFONT
  /\ UnifontHeadRead
  /\ Int32(buffer, ContentStart) = 3
  /\ UnifontRecordInside(1) /\ ~UnifontRecordInside(2)
  /\ UnifontRecordStart(2) + 4 <= Len(buffer)
  /\ DOMAIN fontData.data = {1}
  /\ fontData.baseUp = 6

\* C35: opcode 11 with its five operands draws the arc whose radius is
\* (high x 256 + low) x scale, high and low being its third and fourth
\* operand byte: the pen ends where that arc ends and, when it is down, the
\* points of that arc are added to the polyline under construction.
C35_FractionalArcRadiusIs16Bit ==
  [][About(11) /\ Top.i + 5 < Len(Top.data)
     => /\ Len(frames') = Len(frames)
        /\ frames'[Len(frames)].state
             = ArcDrawn(Top.state,
                        FractionalArc(Top.state.currentPoint,
                                      NumMul(Int2Num(Top.data[Top.i + 4] * 256
                                                     + Top.data[Top.i + 5]),
                                             Top.state.scale),
                                      Top.data[Top.i + 2], Top.data[Top.i + 3],
                                      Top.data[Top.i + 6]))]_vars

\* The width and the height of a bounding box.
BoxSize(b) == <<NumSub(b.maxX, b.minX), NumSub(b.maxY, b.minY)>>

\* C36: for a Bigfont, the shape ShxFont.getCharShape returns is the parser's
\* shape after normalizeToOrigin, and normalizeToOrigin only repositions:
\* the returned shape's bounding box has its lower-left corner at (0, 0) and
\* the width and height of the parser's shape's box, and the last point and
\* every polyline point were shifted by one finite offset; also for a shape
\* with no polylines.
C36_NormalizeOnlyRepositions ==
  outcome.kind = "shape" /\ fontData.fontType = BIGFONT =>
    LET before == bbox(outcome.parserShape)
        after == bbox(outcome.shape)
        p == MinusMin(before)
    IN  /\ outcome.shape = normalizeToOrigin(outcome.parserShape)
        /\ after.minX = Zero /\ after.minY = Zero
        /\ BoxSize(after) = BoxSize(before)
        /\ IsFinite(p.x) /\ IsFinite(p.y)
        /\ outcome.shape = offset(outcome.parserShape, p)

\* C37: between two opcodes of the parseShape call that is running, while
\* the pen is down the polyline under construction is non-empty and its last
\* point is the current pen position; also after opcode 6 and opcode 7 with
\* the pen down.
C37_PenDownPolylineEndsAtPen ==
  frames # <<>> /\ Top.state.isPenDown =>
    /\ Top.state.currentPolyline # <<>>
    /\ Top.state.currentPolyline[Len(Top.state.currentPolyline)] = Top.state.currentPoint

\* The polyline under construction of the running call holds a stroke.
StrokeUnderConstruction == frames # <<>> /\ Len(Top.state.currentPolyline) >= 2

\* C38: a polyline under construction of 2 or more points is among the
\* polylines of the call once opcode 0 has executed, and among the polylines
\* of the shape parseShape returns when the bytecode ends.
C38_NoStrokeLost ==
  [][/\ (StrokeUnderConstruction /\ About(0)
           => /\ Len(frames') = Len(frames)
              /\ \E j \in 1..Len(frames'[Len(frames)].state.polylines) :
                    frames'[Len(frames)].state.polylines[j] = Top.state.currentPolyline)
     /\ (StrokeUnderConstruction /\ Finished
           => /\ Top.code \in DOMAIN shapeCache'
              /\ \E j \in 1..Len(shapeCache'[Top.code].polylines) :
                    shapeCache'[Top.code].polylines[j] = Top.state.currentPolyline)]_vars

\* The opcodes whose handler returns the index of the last byte it read:
\* those with operands, opcode 14 aside, and opcode 7 in a Shapes font.
OperandOpcodes ==
  {3, 4, 8, 9, 10, 11, 12, 13} \cup (IF fontData.fontType = SHAPES THEN {7} ELSE {})

\* C39: an opcode with operands reads no byte at or beyond the length of
\* the bytecode: its handler returns the index of the last byte it read, so
\* the loop goes on at an index that is at most the length, and the runs of
\* opcodes 9 and 13 end inside the bytecode.
C39_OperandsReadOnlyWhenPresent ==
  [][\A op \in OperandOpcodes :
        About(op) =>
          /\ outcome'.kind # "hang"
          /\ (Len(frames') = Len(frames) => frames'[Len(frames)].i <= Len(Top.data))]_vars

\* A variant that answers from the parser's cache of base shapes.
hasCharCached(code) == code \in DOMAIN shapeCache

\* ShxFont.hasChar(code): fontData.content.data[code] !== undefined.
hasChar(code) == code \in DOMAIN fontData.data

\* The last getCharShape call that ended, or that never ends, was for a
\* code other than 0.
CallAnswered == outcome.kind \in {"shape", "undefined", "threw", "hang"} /\ outcome.code # 0

\* C40 as stated: for a code other than 0, hasChar(code) is true exactly
\* when getCharShape(code, size) yields a shape, whatever getCharShape and
\* release calls came before.
C40_HasCharIffShape ==
  CallAnswered => (hasChar(outcome.code) <=> outcome.kind = "shape")

\* C40, amended: for a code other than 0, hasChar(code) is true exactly
\* when getCharShape(code, size) does not return undefined: it yields a
\* shape, throws or does not return.
C40_HasCharIffNotUndefined ==
  CallAnswered => (hasChar(outcome.code) <=> outcome.kind # "undefined")

\* getCharShape threw for a code the font has, whose bytecode pushes a fifth
\* position, after a shape was returned and the caches were released.
C40_ThrewForCodeOfFont ==
  /\ outcome.kind = "threw" /\ outcome.error = "Error"
  /\ outcome.code # 0 /\ hasChar(outcome.code)
  /\ \E k \in DOMAIN results : k[1] \notin DOMAIN shapeCache

====
